---- MODULE Spec2Model ----
(***************************************************************************)
(* State-machine model of the PlayerRandomizer mod of Milo-BL2-SDK-Mods:   *)
(* SkillPool / Branch (skill_pool.py), Dependency (dependency.py),         *)
(* ClassModPatcher (class_mod_patcher.py) and the inject_skills /          *)
(* reset_game handlers (PlayerRandomizer/__init__.py).                     *)
(*                                                                         *)
(* Modelling conventions                                                   *)
(*  - Python floats are modelled as exact rationals.  The                  *)
(*    budgets int(expected_skills / (3.0 - idx)) were compared with the    *)
(*    float results for every pool size used here and agree.               *)
(*  - random.Random(seed) is a deterministic stream of fractions in [0,1); *)
(*    a seed is a short sequence of fractions that is consumed cyclically. *)
(*    random() returns the next fraction f, choice(seq) returns            *)
(*    seq[floor(f*len)], randint(1,n) returns 1+floor(f*n) and choices()   *)
(*    bisects the cumulative weights at f*total, as CPython does.          *)
(*  - Skill names are strings; NameOrder lists them in lexicographic       *)
(*    order so that list.sort() can be computed.                           *)
(***************************************************************************)
EXTENDS Integers, Sequences, FiniteSets, TLC

-----------------------------------------------------------------------------
(* Exact rationals as mixed numbers <<i, n, d>> = i + n/d with 0 <= n < d,   *)
(* n/d in lowest terms.  The integer part is kept apart so that the large   *)
(* weights PRIORITY_WEIGHT produces stay within TLC's integers.             *)

RECURSIVE Gcd(_, _)
Gcd(a, b) == IF b = 0 THEN a ELSE Gcd(b, a % b)

Reduce(i, n, d) ==
    LET q == n \div d
        r == n % d
        g == Gcd(r, d)
    IN  IF r = 0 THEN <<i + q, 0, 1>> ELSE <<i + q, r \div g, d \div g>>

R(k) == <<k, 0, 1>>
Frac(n, d) == Reduce(0, n, d)
RAdd(a, b) == Reduce(a[1] + b[1], a[2] * b[3] + b[2] * a[3], a[3] * b[3])
RNeg(a) == Reduce(-a[1], -a[2], a[3])
RSub(a, b) == RAdd(a, RNeg(b))
RMulInt(a, k) == Reduce(a[1] * k, a[2] * k, a[3])
RDivInt(a, k) == Reduce(a[1] \div k, (a[1] % k) * a[3] + a[2], a[3] * k)
RMul(f, a) == RAdd(RMulInt(a, f[1]), RDivInt(RMulInt(a, f[2]), f[3]))
RLess(a, b) == a[1] < b[1] \/ (a[1] = b[1] /\ a[2] * b[3] < b[2] * a[3])
RLeq(a, b) == ~RLess(b, a)
RIsZero(a) == a[1] = 0 /\ a[2] = 0
RFloor(a) == a[1]

(* The sum s[lo] + ... + s[hi], split in halves.                            *)
RECURSIVE RSumRange(_, _, _)
RSumRange(s, lo, hi) ==
    IF lo > hi THEN R(0)
    ELSE IF lo = hi THEN s[lo]
    ELSE LET mid == (lo + hi) \div 2
         IN  RAdd(RSumRange(s, lo, mid), RSumRange(s, mid + 1, hi))

RSum(s) == RSumRange(s, 1, Len(s))

-----------------------------------------------------------------------------
(* Bounds of the model.                                                     *)

SeedLen == 3
RngCap == 6
MaxRestores == 2
MaxInjects == 2
MaxCalls == 5

-----------------------------------------------------------------------------
(* Program constants.                                                       *)

PRIORITY_WEIGHT == 1000
ACTION_WEIGHT == 3
THEME_WEIGHT == 5
NumTiers == 6
NumBranches == 3
MinComSkills == 5

-----------------------------------------------------------------------------
(* The skill catalog: what skills.find_skills and                           *)
(* characters.Character.update_all collect from the game and from          *)
(* character_hint.HINT_MAP.  Two installed characters; "X" owns the tree    *)
(* being randomized.  The dependency shapes are those of HINT_MAP: a        *)
(* dependency provided by an action skill with dependers and wanters        *)
(* (Krieg's BuzzAxe), one provided by two passive skills that grants a      *)
(* free skill (Krieg's Bloodlust), and one provided by the action skill of  *)
(* another character (Axton's Scorpio), which here grants a free skill too, *)
(* so that mark_used grants one on the action-skill draw.  "Z" is a         *)
(* character without dependencies whose skills make the pool large enough   *)
(* to fill a tier.                                                          *)

NameOrder ==
    << "X.Action", "X.Dep", "X.Grant", "X.Mis", "X.Need",
       "X.P01", "X.P02", "X.P03", "X.P04", "X.P05", "X.P06", "X.P07",
       "X.P08", "X.P09", "X.ProvA", "X.ProvB", "X.Sup", "X.Want",
       "Y.Action", "Y.Dep", "Y.Grant", "Y.P01", "Y.P02", "Y.P03", "Y.P04", "Y.P05",
       "Z.Action", "Z.P01", "Z.P02", "Z.P03", "Z.P04", "Z.P05", "Z.P06",
       "Z.P07", "Z.P08", "Z.P09", "Z.P10", "Z.P11", "Z.P12", "Z.P13",
       "Z.P14", "Z.P15", "Z.P16", "Z.P17", "Z.P18", "Z.P19", "Z.P20",
       "Z.P21", "Z.P22" >>

CharacterNames == {"X", "Y", "Z"}

DepDef ==
    [ DA |-> [ providers |-> <<"X.Action">>, dependers |-> <<"X.Dep">>,
               wanters |-> <<"X.Want">>, extra_skills |-> <<>> ],
      DB |-> [ providers |-> <<"X.ProvA", "X.ProvB">>, dependers |-> <<"X.Need">>,
               wanters |-> <<>>, extra_skills |-> <<"X.Grant">> ],
      DC |-> [ providers |-> <<"Y.Action">>, dependers |-> <<"Y.Dep">>,
               wanters |-> <<>>, extra_skills |-> <<"Y.Grant">> ] ]

Character ==
    [ X |-> [ name |-> "X", character_name |-> "X", action_skill |-> "X.Action",
              pure_skills |-> <<"X.Dep", "X.Need", "X.P01", "X.P02", "X.P03",
                                "X.P04", "X.P05", "X.P06", "X.P07", "X.P08",
                                "X.P09", "X.ProvA", "X.ProvB", "X.Want">>,
              misdocumented_skills |-> <<"X.Mis">>,
              suppressed_skills |-> <<"X.Sup">>,
              extra_skills |-> <<"X.Grant">>,
              dependencies |-> <<"DA", "DB">> ],
      Y |-> [ name |-> "Y", character_name |-> "Y", action_skill |-> "Y.Action",
              pure_skills |-> <<"Y.Dep", "Y.P01", "Y.P02", "Y.P03", "Y.P04",
                                "Y.P05">>,
              misdocumented_skills |-> <<>>,
              suppressed_skills |-> <<>>,
              extra_skills |-> <<"Y.Grant">>,
              dependencies |-> <<"DC">> ],
      Z |-> [ name |-> "Z", character_name |-> "Z", action_skill |-> "Z.Action",
              pure_skills |-> <<"Z.P01", "Z.P02", "Z.P03", "Z.P04", "Z.P05",
                                "Z.P06", "Z.P07", "Z.P08", "Z.P09", "Z.P10",
                                "Z.P11", "Z.P12", "Z.P13", "Z.P14", "Z.P15",
                                "Z.P16", "Z.P17", "Z.P18", "Z.P19", "Z.P20",
                                "Z.P21", "Z.P22">>,
              misdocumented_skills |-> <<>>,
              suppressed_skills |-> <<>>,
              extra_skills |-> <<>>,
              dependencies |-> <<>> ] ]

(* Skill.max_grade (skills.py:37) and Skill.is_upgradable (skills.py:67-74). *)
max_grade(name) == IF name \in {"X.Need", "X.P01", "Y.P01"} THEN 1 ELSE 5

(* Every skill taken as upgradable.                                         *)
is_upgradableAlways(name) == TRUE

is_upgradable(name) == max_grade(name) > 1

(* Character.from_name: None for a name that is not installed.              *)
from_name(name) == IF name \in CharacterNames THEN name ELSE "None"

-----------------------------------------------------------------------------
(* Sequence helpers.                                                        *)

Range(s) == { s[i] : i \in 1..Len(s) }

(* list.index: 0 stands for ValueError.                                     *)
IndexOf(s, x) ==
    IF x \in Range(s)
    THEN CHOOSE i \in 1..Len(s) : s[i] = x /\ \A j \in 1..(i - 1) : s[j] # x
    ELSE 0

(* list(self.skills) followed by list.sort().                               *)
SortedNames(S) == SelectSeq(NameOrder, LAMBDA n : n \in S)

Max(a, b) == IF a > b THEN a ELSE b

-----------------------------------------------------------------------------
(* random.Random(seed): a seed is a sequence of SeedLen fractions consumed  *)
(* cyclically.                                                              *)

Fractions == { Frac(0, 1), Frac(3, 4) }

Seeds == [1..SeedLen -> Fractions]

(* The value the generator returns after pos values were consumed.          *)
RandomAt(seed, pos) == seed[(pos % SeedLen) + 1]

(* Random.choice(seq): seq[_randbelow(len(seq))], as a 1-based index.        *)
ChoiceIndex(f, n) == RFloor(RMulInt(f, n)) + 1

(* Random.randint(a, b).                                                    *)
RandInt(f, a, b) == a + RFloor(RMulInt(f, b - a + 1))

(* itertools.accumulate(weights).                                           *)
Accumulate(w) == [i \in 1..Len(w) |-> RSumRange(w, 1, i)]

(* bisect.bisect_right(a, x, lo, hi) on 0-based positions, as CPython's     *)
(* binary search runs it (the list need not be sorted when a weight is      *)
(* negative).                                                               *)
RECURSIVE Bisect(_, _, _, _)
Bisect(a, x, lo, hi) ==
    IF lo < hi
    THEN LET mid == (lo + hi) \div 2
         IN  IF RLess(x, a[mid + 1]) THEN Bisect(a, x, lo, mid)
             ELSE Bisect(a, x, mid + 1, hi)
    ELSE lo

(* Random.choices(population, weights)[0]: "IndexError" for an empty        *)
(* population, "ValueError" when the total weight is not positive, else     *)
(* the element the bisection of f * total selects.                          *)
ChoicesTotal(weights) == Accumulate(weights)[Len(weights)]

ChoicesError(population, weights) ==
    IF Len(population) = 0 THEN "IndexError"
    ELSE IF RLeq(ChoicesTotal(weights), R(0)) THEN "ValueError"
    ELSE "ok"

Choices(population, weights, f) ==
    LET cum == Accumulate(weights)
        total == cum[Len(weights)]
    IN  population[Bisect(cum, RMul(f, total), 0, Len(population) - 1) + 1]

-----------------------------------------------------------------------------
(* SkillPool.dependencies: a dict provider name -> Dependency, kept as the  *)
(* sequence of its items in insertion order.                                *)

DictKeys(d) == { d[i].key : i \in 1..Len(d) }

DictGet(d, k) == d[CHOOSE i \in 1..Len(d) : d[i].key = k].dep

DictPut(d, k, v) ==
    IF k \in DictKeys(d)
    THEN [i \in 1..Len(d) |-> IF d[i].key = k THEN [key |-> k, dep |-> v] ELSE d[i]]
    ELSE Append(d, [key |-> k, dep |-> v])

DictDel(d, k) == SelectSeq(d, LAMBDA e : e.key # k)

(* dict.values(), in insertion order.                                       *)
DictValues(d) == [i \in 1..Len(d) |-> d[i].dep]

RECURSIVE add_dependency(_, _, _)
add_dependency(d, dep, providers) ==
    IF providers = <<>> THEN d
    ELSE add_dependency(DictPut(d, Head(providers), dep), dep, Tail(providers))

RECURSIVE add_dependencies(_, _)
add_dependencies(d, deps) ==
    IF deps = <<>> THEN d
    ELSE add_dependencies(add_dependency(d, Head(deps), DepDef[Head(deps)].providers),
                          Tail(deps))

(* mark_used without lines 185-186: the providers stay registered.          *)
DelProvidersKept(d, providers) == [deps |-> d, err |-> FALSE]

(* for skill_name in dep.providers: del self.dependencies[skill_name]       *)
RECURSIVE DelProviders(_, _)
DelProviders(d, providers) ==
    IF providers = <<>> THEN [deps |-> d, err |-> FALSE]
    ELSE IF Head(providers) \notin DictKeys(d) THEN [deps |-> d, err |-> TRUE]
    ELSE DelProviders(DictDel(d, Head(providers)), Tail(providers))

-----------------------------------------------------------------------------
(* SkillPool.mark_used.                                                     *)

ThemedSkills(dep, hidden) ==
    DepDef[dep].providers \o DepDef[dep].dependers
        \o (IF hidden = "None" THEN DepDef[dep].wanters ELSE <<>>)

(* ThemeWeight without line 176: the weight survives in the other branches. *)
ThemeWeightKept(w, idx, branch_idx) ==
    IF branch_idx < 0 THEN RMulInt(w, ACTION_WEIGHT)
    ELSE IF idx = branch_idx THEN RMulInt(w, THEME_WEIGHT)
    ELSE w

ThemeWeight(w, idx, branch_idx) ==
    IF branch_idx < 0 THEN RMulInt(w, ACTION_WEIGHT)
    ELSE IF idx = branch_idx THEN RMulInt(w, THEME_WEIGHT)
    ELSE R(0)

RECURSIVE ApplyTheme(_, _, _, _)
ApplyTheme(branch, themed, branch_idx, order) ==
    IF themed = <<>> THEN branch
    ELSE LET i == IndexOf(order, Head(themed))
             w == branch.skill_weights[i]
             nw == ThemeWeight(w, branch.idx, branch_idx)
             nb == IF i = 0 THEN branch
                   ELSE [branch EXCEPT !.total_weight = RAdd(RSub(@, w), nw),
                                       !.skill_weights[i] = nw]
         IN  ApplyTheme(nb, Tail(themed), branch_idx, order)

(* ZeroWeight without line 192: the drawn skill keeps its weight.           *)
ZeroWeightKept(branches, i) == branches

(* Lines 188-199: the drawn skill's weight is zeroed in every branch;       *)
(* total_weight is left as it is.                                           *)
ZeroWeight(branches, i) ==
    [b \in 1..Len(branches) |-> [branches[b] EXCEPT !.skill_weights[i] = R(0)]]

(* The SkillPool st after mark_used(skill, hidden_skills, branch_idx); err  *)
(* is set when del raises KeyError.                                         *)
mark_used(st, skill, hidden, branch_idx) ==
    LET isProv == skill \in DictKeys(st.dependencies)
        dep == DictGet(st.dependencies, skill)
        themedBr == [b \in 1..Len(st.new_branches) |->
                        ApplyTheme(st.new_branches[b], ThemedSkills(dep, hidden),
                                   branch_idx, st.skill_order)]
        del == DelProviders(st.dependencies, DepDef[dep].providers)
        st1 == IF isProv
               THEN [st EXCEPT !.new_branches = themedBr,
                               !.extra_skills = @ \o DepDef[dep].extra_skills,
                               !.dependencies = del.deps,
                               !.err = del.err]
               ELSE st
        i == IndexOf(st.skill_order, skill)
    IN  IF st1.err \/ i = 0 THEN st1
        ELSE [st1 EXCEPT !.new_branches = ZeroWeight(@, i),
                         !.class_mod_skills =
                             IF is_upgradable(skill) THEN Append(@, skill) ELSE @]

-----------------------------------------------------------------------------
(* SkillPool.randomize_branch_tier: the cheat weights and the slot count.   *)

(* CheatWeight without the overdue case of lines 401-404: the weight of an  *)
(* overdue cheat is left as it is.                                          *)
CheatWeightNoOverdue(branch, branches, tier, i, cheat_tier) ==
    LET w == branch.skill_weights[i]
    IN  IF RIsZero(w) \/ cheat_tier < tier THEN w
        ELSE IF tier = cheat_tier /\ branch.idx = 2
             THEN RMulInt(branch.total_weight, PRIORITY_WEIGHT)
        ELSE RDivInt(branch.total_weight,
                     3 * (cheat_tier - tier) + 2 - branch.idx)

(* Lines 398-417 for one cheat whose skill sits at index i of skill_order.  *)
(* The for loop over other_branch has no break, so its else clause always   *)
(* runs and overwrites what the loop body assigned.                         *)
CheatWeight(branch, branches, tier, i, cheat_tier) ==
    LET w == branch.skill_weights[i]
        priority == RMulInt(branch.total_weight, PRIORITY_WEIGHT)
        forValue ==
            IF \E b \in 1..Len(branches) : RIsZero(branches[b].skill_weights[i])
            THEN IF cheat_tier = tier THEN priority
                 ELSE RDivInt(branch.total_weight, cheat_tier - tier)
            ELSE w
        elseValue ==
            IF tier = cheat_tier /\ branch.idx = 2 THEN priority
            ELSE RDivInt(branch.total_weight,
                         3 * (cheat_tier - tier) + 2 - branch.idx)
    IN  IF RIsZero(w) THEN w
        ELSE IF cheat_tier < tier THEN priority
        ELSE elseValue

(* AdjustCheats raising for a cheat that is not in skill_order: the branch  *)
(* is left with no weight to draw from.                                     *)
AdjustCheatsStrict(branch, branches, tier, cheats, order) ==
    IF DOMAIN cheats \subseteq Range(order)
    THEN [branch EXCEPT !.skill_weights =
            [i \in 1..Len(order) |->
                IF order[i] \in DOMAIN cheats
                THEN CheatWeight(branch, branches, tier, i, cheats[order[i]])
                ELSE @[i]]]
    ELSE [branch EXCEPT !.skill_weights = [i \in 1..Len(order) |-> R(0)]]

(* Lines 395-419: a cheat that is not in skill_order is logged and skipped. *)
AdjustCheats(branch, branches, tier, cheats, order) ==
    [branch EXCEPT !.skill_weights =
        [i \in 1..Len(order) |->
            IF order[i] \in DOMAIN cheats
            THEN CheatWeight(branch, branches, tier, i, cheats[order[i]])
            ELSE @[i]]]

(* Lines 424-426.                                                           *)
ExpectedDensity(branch) ==
    Frac(branch.expected_skills - branch.skill_count, branch.slots_left)

(* Lines 428-435: whether the slot count consumes rng.random().             *)
CountUsesRandom(d) ==
    /\ ~RLess(Frac(99, 100), d)
    /\ RLess(Frac(33, 100), d)

(* Lines 427-435, f being the value rng.random() returns.                   *)
SkillCount(d, f) ==
    IF RLess(Frac(99, 100), d) THEN 3
    ELSE IF RLess(Frac(66, 100), d)
         THEN IF RLess(f, RMulInt(RSub(d, Frac(66, 100)), 3)) THEN 3 ELSE 2
    ELSE IF RLess(Frac(33, 100), d)
         THEN IF RLess(f, RMulInt(RSub(d, Frac(33, 100)), 3)) THEN 2 ELSE 1
    ELSE IF RLess(R(0), d) THEN 1
    ELSE 0

(* TierLayout with the third cell compared against 2.                      *)
TierLayoutSkewed(count) == << count > 1, count % 2 > 0, count > 2 >>

(* Lines 436-438.                                                           *)
TierLayout(count) == << count > 1, count % 2 > 0, count > 1 >>

(* The whole of total_points as the upper bound.                            *)
TwoThirdsWhole(total_points) == total_points

(* int(0.66 * total_points).                                                *)
TwoThirds(total_points) == (66 * total_points) \div 100

-----------------------------------------------------------------------------
(* Branch.                                                                  *)

(* Branch.from_branch: None entries of a tier's Skills are dropped.         *)
from_branch(eb) ==
    [ skills |-> [t \in 1..Len(eb.skills) |->
                     SelectSeq(eb.skills[t], LAMBDA sk : sk # "None")],
      points_to_unlock |-> eb.points_to_unlock,
      layout |-> eb.layout ]

(* Branch.from_other followed by Branch.prepare.                            *)
prepare(other, idx, expected_skills, skill_weights) ==
    [ skills |-> other.skills,
      points_to_unlock |-> other.points_to_unlock,
      layout |-> other.layout,
      idx |-> idx,
      slots_left |-> 18,
      expected_skills |-> expected_skills,
      skill_count |-> 0,
      skill_weights |-> skill_weights,
      total_weight |-> RSum(skill_weights) ]

(* What Branch.patch writes into the engine.                                *)
patch(branch) ==
    [ skills |-> branch.skills,
      points_to_unlock |-> branch.points_to_unlock,
      layout |-> branch.layout ]

(* Lines 329-345: the budgets int(expected_skills / (3.0 - branch_idx)),    *)
(* with expected_skills counted in hundredths of a skill.                   *)
ClampedHundredths(n, density) ==
    IF n * 100 < 54 * density THEN 100 * n ELSE 54 * density

(* Budgets with each share rounded up instead of truncated by int().       *)
RECURSIVE BudgetsRoundedUp(_, _)
BudgetsRoundedUp(hundredths, idx) ==
    IF idx = NumBranches THEN <<>>
    ELSE LET e == ((hundredths + 100 * (NumBranches - idx) - 1)
                      \div (NumBranches - idx)) \div 100
         IN  <<e>> \o BudgetsRoundedUp(hundredths - 100 * e, idx + 1)

RECURSIVE Budgets(_, _)
Budgets(hundredths, idx) ==
    IF idx = NumBranches THEN <<>>
    ELSE LET e == (hundredths \div (NumBranches - idx)) \div 100
         IN  <<e>> \o Budgets(hundredths - 100 * e, idx + 1)

-----------------------------------------------------------------------------
(* The state.                                                               *)

VARIABLES
    options,      \* the mod options inject_skills reads, and the seed
    source_order, \* the order in which the set enabled_sources enumerates
    engine,       \* the game objects: for each class the three branches of its
                  \* skill tree and Root.Tiers[0].Skills
    class_mods,   \* the game's ClassModDefinitions
    pool,         \* the SkillPool of the current inject_skills call
    com_patcher,  \* the module's ClassModPatcher
    com_patched,  \* the module's com_patched flag
    rng_pos,      \* position of rng in the seed's stream (modulo SeedLen)
    rng_count,    \* values consumed from rng so far, saturating at RngCap
    desired_char, \* randomize_tree's desired_char
    pc,           \* where the handler stands
    tier,         \* loop variable of lines 355-361
    branch_idx,   \* index of the branch being filled, 0..2
    skill_count,  \* randomize_branch_tier's skill_count
    tier_skills,  \* randomize_branch_tier's tier_skills
    max_points,   \* randomize_branch_tier's max_points
    total_points, \* randomize_branch_tier's total_points
    com_loop,     \* randomize_coms' special_com_name, loop positions,
                  \* used_skills and cheat_skills
    restores,     \* number of unrandomize_tree calls made, up to MaxRestores
    log,          \* history: dependencies consumed and skills placed, in order
    before,       \* history: the skill tree when randomize_tree began
    com_before,   \* history: class_mods when record_coms ran
    com_offset,   \* history: values rng had produced when randomize_coms
                  \* drew its first one in this call; -1 before that
    tree_class,   \* the class whose skill tree inject_skills is initialising
    injects,      \* number of inject_skills calls begun, up to MaxInjects
    original      \* history: the engine and the class mods before the first call

randomizerState == << options, source_order, engine, class_mods, pool, com_patcher,
                  com_patched, rng_pos, rng_count, desired_char, pc, tier, branch_idx,
                  skill_count, tier_skills, max_points, total_points, com_loop,
                  restores, log, before, com_before, com_offset, tree_class,
                  injects, original >>

session == << tree_class, injects, original >>

treeLocals == << tier, branch_idx, skill_count, tier_skills, max_points,
                 total_points >>

comState == << class_mods, com_patcher, com_patched, com_loop, com_before,
               com_offset >>

-----------------------------------------------------------------------------
(* Changes (EffectRandomizer/changes.py, ChangeUtil): proxied modifications *)
(* of game objects and their undo log.                                      *)

(* A property value: an int, a float counted in units of 10^-7, a list of   *)
(* ints, a reference to another object, or None.                            *)
IntValue(n) == [type |-> "int", n |-> n, elements |-> <<>>, name |-> "None"]
FloatValue(n) == [type |-> "float", n |-> n, elements |-> <<>>, name |-> "None"]
ListValue(s) == [type |-> "list", n |-> 0, elements |-> s, name |-> "None"]
RefValue(name) == [type |-> "ref", n |-> 0, elements |-> <<>>, name |-> name]
NoneValue == [type |-> "None", n |-> 0, elements |-> <<>>, name |-> "None"]

(* f"{value:.6f}": the number of millionths nearest to n units of 10^-7.    *)
Round6(n) == (n + 5) \div 10

(* Changes.console_value: the console text of a value.                      *)
console_value(value) ==
    IF value.type = "None" THEN [text |-> "None", n |-> 0, elements |-> <<>>, name |-> "None"]
    ELSE IF value.type = "float"
    THEN [text |-> "%.6f", n |-> Round6(value.n), elements |-> <<>>, name |-> "None"]
    ELSE IF value.type = "ref"
    THEN [text |-> "Class'path'", n |-> 0, elements |-> <<>>, name |-> value.name]
    ELSE IF value.type = "list"
    THEN [text |-> "(,)", n |-> 0, elements |-> value.elements, name |-> "None"]
    ELSE [text |-> "%d", n |-> value.n, elements |-> <<>>, name |-> "None"]

(* Changes.get_command: "set obj_name property_name value_text".            *)
get_command(obj_name, property_name, new_value) ==
    [obj_name |-> obj_name, property_name |-> property_name,
     value_text |-> console_value(new_value)]

(* The value the game's console gives a property on "set": the text read    *)
(* back in the property's type.                                             *)
ConsoleCommand(command) ==
    LET t == command.value_text
    IN  IF t.text = "None" THEN NoneValue
        ELSE IF t.text = "%.6f" THEN FloatValue(10 * t.n)
        ELSE IF t.text = "Class'path'" THEN RefValue(t.name)
        ELSE IF t.text = "(,)" THEN ListValue(t.elements)
        ELSE IntValue(t.n)

(* The keys obj._path_name() + "." + property_name of the properties the    *)
(* callers change.                                                          *)
Keys == { <<"A", "Count">>, <<"A", "Scale">>, <<"B", "Slots">>, <<"B", "Provider">> }

(* The values a property may hold when the Changes instance is created.     *)
GameValues(key) ==
    IF key[2] = "Count" THEN { IntValue(1) }
    ELSE IF key[2] = "Scale" THEN { FloatValue(2500000), FloatValue(3333333) }
    ELSE IF key[2] = "Slots" THEN { ListValue(<<1, 2>>), NoneValue }
    ELSE { NoneValue }

(* The values the callers assign.                                           *)
NewValues(key) ==
    IF key[2] = "Count" THEN { IntValue(2), IntValue(3) }
    ELSE IF key[2] = "Scale" THEN { FloatValue(5000000) }
    ELSE IF key[2] = "Slots" THEN { ListValue(<<3>>) }
    ELSE { RefValue("BP.Behavior") }

VARIABLES
    objects,      \* the game objects: key -> value of the property
    undo_log,     \* Changes.undo_log
    cache,        \* Changes.cache: key -> the pending toplevel value; live when
                  \* it is the game's own array handed out by edit_obj
    calls,        \* number of calls made on the instance, up to MaxCalls
    first,        \* history: objects when the instance was created or last unwound
    modified,     \* history: keys whose property was written since then
    direct        \* history: keys assigned by set_obj_direct since then

changesState == << objects, undo_log, cache, calls, first, modified, direct >>

VARIABLES
    seed_option,   \* seed_option.value, the master seed
    game,          \* Game.get_current()
    option_value,  \* scrambler name -> scrambler_class.OPTION.value
    handed,        \* name -> seed of the scrambler_rng handed to scramble
    consumed       \* name -> the values scramble took from its scrambler_rng

scramblerState == << seed_option, game, option_value, handed, consumed >>

effectState == << changesState, scramblerState >>

EmptyCache == [key \in {} |-> NoneValue]

(* A new Changes instance (__init__) beside the game's objects.             *)
NewChanges ==
    /\ undo_log = <<>>
    /\ cache = EmptyCache
    /\ calls = 0
    /\ first = objects
    /\ modified = {}
    /\ direct = {}

Put(f, key, value) ==
    [k \in DOMAIN f \cup {key} |-> IF k = key THEN value ELSE f[k]]

(* The value a cache entry stands for.                                      *)
Toplevel(entry, key, objs) == IF entry.live THEN objs[key] ELSE entry.value

(* Changes.set_obj.                                                         *)
SetObj ==
    /\ calls < MaxCalls
    /\ \E key \in Keys : \E new_value \in NewValues(key) :
          /\ key[2] # "Provider"
          /\ undo_log' = IF key \notin DOMAIN cache
                         THEN << [direct |-> FALSE,
                                  command |-> get_command(key[1], key[2], objects[key])] >>
                                  \o undo_log
                         ELSE undo_log
          /\ cache' = Put(cache, key, [live |-> FALSE, value |-> new_value])
    /\ calls' = calls + 1
    /\ UNCHANGED << objects, first, modified, direct >>
    /\ UNCHANGED randomizerState
    /\ UNCHANGED scramblerState

(* Changes.set_obj_direct.                                                  *)
SetObjDirect ==
    /\ calls < MaxCalls
    /\ \E key \in Keys : \E new_value \in NewValues(key) :
          /\ key[2] \in {"Scale", "Provider"}
          /\ undo_log' = << [direct |-> TRUE, key |-> key,
                             simple_value |-> IF new_value.type = "ref"
                                              THEN NoneValue ELSE new_value,
                             ref_name |-> new_value.name] >>
                         \o undo_log
          /\ objects' = [objects EXCEPT ![key] = new_value]
          /\ modified' = modified \cup {key}
          /\ direct' = direct \cup {key}
    /\ calls' = calls + 1
    /\ UNCHANGED << cache, first >>
    /\ UNCHANGED randomizerState
    /\ UNCHANGED scramblerState

(* Changes.edit_obj with property_type WrappedArray.                        *)
EditObj ==
    /\ calls < MaxCalls
    /\ \E key \in Keys :
          /\ key[2] = "Slots"
          /\ IF key \in DOMAIN cache
             THEN UNCHANGED << undo_log, cache >>
             ELSE /\ undo_log' = << [direct |-> FALSE,
                                     command |-> get_command(key[1], key[2], objects[key])] >>
                                 \o undo_log
                  /\ cache' = Put(cache, key,
                                  IF objects[key].type = "None"
                                  THEN [live |-> FALSE, value |-> ListValue(<<>>)]
                                  ELSE [live |-> TRUE, value |-> NoneValue])
    /\ calls' = calls + 1
    /\ UNCHANGED << objects, first, modified, direct >>
    /\ UNCHANGED randomizerState
    /\ UNCHANGED scramblerState

(* The caller's edit of the value edit_obj returned: one element replaced.  *)
EditElement ==
    /\ \E key \in DOMAIN cache : \E x \in {7} :
          LET entry == cache[key]
              value == Toplevel(entry, key, objects)
          IN  /\ value.type = "list"
              /\ Len(value.elements) >= 1
              /\ value.elements[1] # x
              /\ IF entry.live
                 THEN /\ objects' = [objects EXCEPT ![key].elements[1] = x]
                      /\ modified' = modified \cup {key}
                      /\ UNCHANGED cache
                 ELSE /\ cache' = [cache EXCEPT ![key].value.elements[1] = x]
                      /\ UNCHANGED << objects, modified >>
    /\ UNCHANGED << undo_log, calls, first, direct >>
    /\ UNCHANGED randomizerState
    /\ UNCHANGED scramblerState

(* The loop of Changes.commit: every cached value is sent to the console.   *)
Committed(pending, objs) ==
    [key \in Keys |->
        IF key \in DOMAIN pending
        THEN ConsoleCommand(get_command(key[1], key[2],
                                Toplevel(pending[key], key, objs)))
        ELSE objs[key]]

(* Changes.commit.                                                          *)
Commit ==
    /\ calls < MaxCalls
    /\ objects' = Committed(cache, objects)
    /\ modified' = modified \cup DOMAIN cache
    /\ cache' = EmptyCache
    /\ calls' = calls + 1
    /\ UNCHANGED << undo_log, first, direct >>
    /\ UNCHANGED randomizerState
    /\ UNCHANGED scramblerState

(* The loop of Changes.unwind over the undo log, front first.               *)
RECURSIVE ApplyUndo(_, _)
ApplyUndo(log_left, objs) ==
    IF log_left = <<>> THEN objs
    ELSE LET undo == Head(log_left)
         IN  ApplyUndo(
                 Tail(log_left),
                 IF undo.direct
                 THEN [objs EXCEPT ![undo.key] =
                          IF undo.ref_name = "None" THEN undo.simple_value
                          ELSE RefValue(undo.ref_name)]
                 ELSE [objs EXCEPT ![<<undo.command.obj_name,
                                       undo.command.property_name>>] =
                          ConsoleCommand(undo.command)])

(* Changes.unwind.                                                          *)
Unwind ==
    /\ calls < MaxCalls
    /\ objects' = ApplyUndo(undo_log, objects)
    /\ undo_log' = <<>>
    /\ calls' = calls + 1
    /\ first' = objects'
    /\ modified' = {}
    /\ direct' = {}
    /\ UNCHANGED cache
    /\ UNCHANGED randomizerState
    /\ UNCHANGED scramblerState

ChangesNext ==
    \/ SetObj
    \/ SetObjDirect
    \/ EditObj
    \/ EditElement
    \/ Commit
    \/ Unwind

-----------------------------------------------------------------------------
(* EffectRandomizer.on_disable_loading_movie: the generators of the         *)
(* scramblers.                                                              *)

SCRAMBLERS ==
    << "ProjectileBehavior", "FiringMode", "ShieldBonus", "ClassModPart", "Relic" >>

Games == {"BL2", "TPS"}

SUPPORTS(name) == IF name = "Relic" THEN {"BL2", "AoDK"} ELSE {"BL2", "AoDK", "TPS"}

MasterSeeds == {0, 1}

(* How many values a scramble call may take from its generator.             *)
DrawCounts == {0, 2}

(* The k-th value (k from 0) of random.Random(seed).randrange(sys.maxsize): *)
(* a fixed function of the seed and of the number of values drawn before.   *)
Randrange(seed, k) == (7 * seed + 3 * k + 1) % 23

(* The sub-seed drawn only for a scrambler whose option is on.              *)
DrawsSubSeedIfEnabled(supported, enabled) == supported /\ enabled

(* Lines 779-783: rng.randrange is called for every scrambler the game      *)
(* supports, before its option is looked at.                                *)
DrawsSubSeed(supported, enabled) == supported

(* The for loop of lines 778-790 from SCRAMBLERS[i] on, master_pos being    *)
(* the number of values taken from rng so far: the seed of the              *)
(* scrambler_rng of every scrambler whose scramble is called.               *)
RECURSIVE ScramblerSeeds(_, _, _)
ScramblerSeeds(i, master_pos, acc) ==
    IF i > Len(SCRAMBLERS) THEN acc
    ELSE LET name == SCRAMBLERS[i]
             supported == game \in SUPPORTS(name)
             enabled == option_value[name]
             draws == DrawsSubSeed(supported, enabled)
         IN  ScramblerSeeds(
                 i + 1,
                 IF draws THEN master_pos + 1 ELSE master_pos,
                 IF supported /\ enabled
                 THEN Put(acc, name, Randrange(seed_option, master_pos))
                 ELSE acc)

NoSeeds == [name \in {} |-> 0]

(* on_disable_loading_movie: each scramble takes some values from the       *)
(* generator it was handed.  What scramble writes through __changes is not  *)
(* modelled, so the commit of line 792 finds the cache as it is.            *)
OnDisableLoadingMovie ==
    /\ handed' = ScramblerSeeds(1, 0, NoSeeds)
    /\ \E counts \in [Range(SCRAMBLERS) -> DrawCounts] :
          consumed' = [name \in DOMAIN handed' |->
                       [j \in 1..counts[name] |-> Randrange(handed'[name], j - 1)]]
    /\ UNCHANGED << seed_option, game, option_value >>
    /\ UNCHANGED changesState
    /\ UNCHANGED randomizerState

(* The user switches the option of one scrambler.                           *)
SetOption ==
    /\ \E name \in Range(SCRAMBLERS) :
          option_value' = [option_value EXCEPT ![name] = ~@]
    /\ UNCHANGED << seed_option, game, handed, consumed >>
    /\ UNCHANGED changesState
    /\ UNCHANGED randomizerState

ScramblerNext ==
    \/ OnDisableLoadingMovie
    \/ SetOption

(* The scramblers before the first loading movie, every option on.          *)
ScramblersNew ==
    /\ option_value = [name \in Range(SCRAMBLERS) |-> TRUE]
    /\ handed = NoSeeds
    /\ consumed = [name \in {} |-> <<>>]

ScramblersIdle ==
    /\ seed_option = 0
    /\ game = "BL2"
    /\ ScramblersNew

(* The game's objects beside a Changes instance nothing has been asked of.  *)
ChangesIdle ==
    /\ objects = [key \in Keys |-> CHOOSE value \in GameValues(key) : TRUE]
    /\ NewChanges
    /\ ScramblersIdle

vars == << randomizerState, effectState >>

-----------------------------------------------------------------------------
(* Inputs.                                                                  *)

SourceOrders == { <<>>, <<"X">>, <<"Y">>, <<"X", "Y">>, <<"Y", "X">> }

HiddenChoices == {"None", "Misdocumented", "All"}

(* The cheat entries: tier option value - 1, and the class-mod flag.        *)
CheatTable ==
    [ n \in Range(NameOrder) |->
        IF n = "X.Need" THEN 0 ELSE IF n = "X.P02" THEN 3 ELSE IF n = "X.Sup" THEN 2
        ELSE IF n = "Y.P05" THEN 0 ELSE 1 ]

CheatComFlag(n) ==
    n \in {"X.P02", "X.Want", "X.P03", "X.P04", "X.P05", "X.P06", "X.P07"}

CheatSets ==
    { {"X.Need", "X.P02"}, {"X.Sup"}, {"X.Want"}, {"Y.P05"}, {"X.ProvA"} }

CheatMaps == { [n \in S |-> CheatTable[n]] : S \in CheatSets }

(* Cheats that all ask for a class mod: four of them, five, and one.        *)
ComCheatSets ==
    { {"X.P03", "X.P04", "X.P05", "X.P06"},
      {"X.P03", "X.P04", "X.P05", "X.P06", "X.P07"},
      {"X.P03"} }

ComCheatMaps == { [n \in S |-> CheatTable[n]] : S \in ComCheatSets }

NoCheats == [n \in {} |-> 0]

(* The tree of character X as the game ships it; with_none puts a None      *)
(* entry into one tier's Skills array.                                      *)
OriginalBranch(b, with_none) ==
    [ skills |-> IF b = 1
                 THEN << IF with_none THEN <<"X.P01", "None", "X.P02">>
                                      ELSE <<"X.P01", "X.P02">>,
                         <<"X.Dep">>, <<"X.P03">>, <<"X.Want">>, <<"X.P04">>,
                         <<"X.P05">> >>
                 ELSE IF b = 2
                 THEN << <<"X.ProvA">>, <<"X.ProvB">>, <<"X.Need">>, <<"X.P06">>,
                         <<>>, <<"X.P07", "X.Grant">> >>
                 ELSE << <<"X.P08">>, <<"X.P09">>, <<>>, <<>>, <<>>, <<>> >>,
      points_to_unlock |-> <<5, 5, 5, 5, 5, 5>>,
      layout |-> IF b = 1
                 THEN << <<TRUE, FALSE, TRUE>>, <<FALSE, TRUE, FALSE>>,
                         <<FALSE, TRUE, FALSE>>, <<FALSE, TRUE, FALSE>>,
                         <<FALSE, TRUE, FALSE>>, <<FALSE, TRUE, FALSE>> >>
                 ELSE [t \in 1..NumTiers |-> <<FALSE, TRUE, FALSE>>] ]

OriginalEngine(with_none) ==
    [ branches |-> [b \in 1..NumBranches |-> OriginalBranch(b, with_none)],
      action_skills |-> <<"X.Action">> ]

(* The tree of character Y as the game ships it.                            *)
OriginalEngineY ==
    [ branches |->
        [b \in 1..NumBranches |->
            [ skills |-> IF b = 1
                         THEN << <<"Y.P01">>, <<"Y.Dep">>, <<"Y.P02">>, <<>>, <<>>, <<>> >>
                         ELSE IF b = 2
                         THEN << <<"Y.P03">>, <<"Y.P04">>, <<>>, <<>>, <<>>, <<>> >>
                         ELSE << <<"Y.P05">>, <<>>, <<>>, <<>>, <<>>, <<>> >>,
              points_to_unlock |-> <<5, 5, 5, 5, 5, 5>>,
              layout |-> [t \in 1..NumTiers |-> <<FALSE, TRUE, FALSE>>] ]],
      action_skills |-> <<"Y.Action">> ]

(* The class mods, in the order find_all yields them, each with the class   *)
(* it requires.  A                                                          *)
(* slot is its SlotName's kind and the path name of its AttributeToModify   *)
(* ("None" for a null reference).  In the layout "null" a skill slot of     *)
(* the first mod has no attribute; the layout "legendary" has a mod with    *)
(* four skill slots.                                                        *)
SkillSlot(attr) == [slot_name |-> "Skill", attr |-> attr]

OtherSlot(attr) == [slot_name |-> "Other", attr |-> attr]

ComLayoutNames == {"plain", "null"}

XClassMods(layout) ==
    IF layout = "legendary"
    THEN << [ name |-> "GD_ClassMods.A", player_class |-> "X",
              slots |-> << SkillSlot("A.Attr1"), SkillSlot("A.Attr2"),
                           OtherSlot("A.Stat") >> ],
            [ name |-> "GD_ClassMods.L", player_class |-> "X",
              slots |-> << SkillSlot("L.Attr1"), SkillSlot("L.Attr2"),
                           SkillSlot("L.Attr3"), SkillSlot("L.Attr4"),
                           OtherSlot("L.Stat") >> ] >>
    ELSE
    << [ name |-> "GD_ClassMods.A", player_class |-> "X",
         slots |-> IF layout = "null"
                   THEN << SkillSlot("A.Attr1"), SkillSlot("None"),
                           SkillSlot("A.Attr3"), OtherSlot("A.Stat") >>
                   ELSE << SkillSlot("A.Attr1"), SkillSlot("A.Attr2"),
                           OtherSlot("A.Stat") >> ],
       [ name |-> "GD_Aster.B", player_class |-> "X",
         slots |-> << SkillSlot("B.Attr1"), OtherSlot("B.Stat") >> ] >>

OriginalClassMods(layout) ==
    XClassMods(layout)
        \o << [ name |-> "GD_ClassMods.YA", player_class |-> "Y",
                slots |-> << SkillSlot("YA.Attr1"), OtherSlot("YA.Stat") >> ] >>

(* SkillPool.__init__.  original_branches = None is written <<>>:           *)
(* unrandomize_tree patches nothing in either case.                         *)
NewPool ==
    [ skills |-> {}, skill_order |-> <<>>, dependencies |-> <<>>,
      extra_skills |-> <<>>, class_mod_skills |-> <<>>,
      original_branches |-> <<>>, new_branches |-> <<>>,
      current_char_class |-> "None", err |-> FALSE ]

(* ClassModPatcher.__init__: self.coms = None.                              *)
NewPatcher == [ is_none |-> TRUE, coms |-> <<>> ]

NewComLoop ==
    [ given |-> -1, special_com_name |-> "None", com |-> 0, slot |-> 0,
      used_skills |-> {}, cheat_skills |-> {} ]

(* The input families explored.                                             *)
GeneralOptions ==
    [ seed : Seeds,
      hidden_skills : HiddenChoices,
      action_skill : {"Default", "Random"},
      skill_density : {100},
      randomize_tiers : BOOLEAN,
      randomize_coms : {TRUE},
      cheats : {NoCheats} ]

NamedActionOptions ==
    [ seed : Seeds,
      hidden_skills : {"None"},
      action_skill : {"Y", "Q"},
      skill_density : {0, 100},
      randomize_tiers : {FALSE},
      randomize_coms : {FALSE},
      cheats : {NoCheats} ]

CheatOptions ==
    [ seed : Seeds,
      hidden_skills : HiddenChoices,
      action_skill : {"Default"},
      skill_density : {100},
      randomize_tiers : {FALSE},
      randomize_coms : {TRUE},
      cheats : CheatMaps ]

DefaultOptions ==
    [ seed : Seeds,
      hidden_skills : {"None"},
      action_skill : {"Default"},
      skill_density : {5, 100},
      randomize_tiers : {FALSE},
      randomize_coms : {TRUE},
      cheats : {NoCheats} ]

ComCheatOptions ==
    [ seed : Seeds,
      hidden_skills : {"None"},
      action_skill : {"Default"},
      skill_density : {100},
      randomize_tiers : {FALSE},
      randomize_coms : {TRUE},
      cheats : ComCheatMaps ]

Inputs ==
    [ options : GeneralOptions \cup NamedActionOptions,
      source_order : SourceOrders, with_none : {FALSE}, layout : {"plain"} ]
    \cup
    [ options : CheatOptions,
      source_order : { <<"X">>, <<"X", "Y">> },
      with_none : {FALSE}, layout : {"plain"} ]
    \cup
    [ options : ComCheatOptions,
      source_order : { <<"X">> },
      with_none : {FALSE}, layout : {"legendary", "plain"} ]
    \cup
    [ options : DefaultOptions,
      source_order : { <<"X">>, <<"Z", "X">> },
      with_none : BOOLEAN, layout : ComLayoutNames ]

InitOf(inputs) ==
    /\ \E in \in inputs :
          /\ options = in.options
          /\ source_order = in.source_order
          /\ engine = [c \in {"X", "Y"} |->
                         IF c = "X" THEN OriginalEngine(in.with_none)
                                    ELSE OriginalEngineY]
          /\ class_mods = OriginalClassMods(in.layout)
    /\ pool = NewPool
    /\ com_patcher = NewPatcher
    /\ com_patched = FALSE
    /\ rng_pos = 0
    /\ rng_count = 0
    /\ desired_char = "None"
    /\ pc = "idle"
    /\ tier = 0
    /\ branch_idx = 0
    /\ skill_count = 0
    /\ tier_skills = <<>>
    /\ max_points = 0
    /\ total_points = 0
    /\ com_loop = NewComLoop
    /\ restores = 0
    /\ log = <<>>
    /\ before = engine["X"]
    /\ com_before = class_mods
    /\ com_offset = -1
    /\ tree_class = "X"
    /\ injects = 1
    /\ original = [engine |-> engine, class_mods |-> class_mods]

Init ==
    /\ InitOf(Inputs)
    /\ ChangesIdle

-----------------------------------------------------------------------------
(* inject_skills and SkillPool.randomize_tree.                              *)

EnabledSources == Range(source_order)

(* Lines 289-302: the skills and dependencies of the enabled characters,    *)
(* added in the order the set enumerates.  The option values are "None",    *)
(* "Misdocumented" and "All"; the code compares them with "none" and "all". *)
RECURSIVE AddSources(_, _, _)
AddSources(p, order, hidden) ==
    IF order = <<>> THEN p
    ELSE LET c == Character[Head(order)]
             added == Range(c.pure_skills)
                        \cup (IF hidden # "none"
                              THEN Range(c.misdocumented_skills)
                                     \cup (IF hidden = "all"
                                           THEN Range(c.suppressed_skills) ELSE {})
                              ELSE {})
         IN  AddSources([p EXCEPT !.skills = @ \cup added,
                                  !.dependencies = add_dependencies(@, c.dependencies)],
                        Tail(order), hidden)

(* NeedsRandomChar without the test of lines 324-327 that a named character *)
(* is enabled.                                                              *)
NeedsRandomCharInstalled(action, current_class) ==
    IF action = "Default" THEN current_class \notin EnabledSources
    ELSE IF action = "Random" THEN TRUE
    ELSE from_name(action) = "None"

(* Lines 308-327: whether desired_char is drawn with                        *)
(* rng.choice(list(enabled_sources)).                                       *)
NeedsRandomChar(action, current_class) ==
    IF action = "Default" THEN current_class \notin EnabledSources
    ELSE IF action = "Random" THEN TRUE
    ELSE from_name(action) = "None" \/ action \notin EnabledSources

(* rng.choice(list(enabled_sources)), the list being in enumeration order.  *)
RandomChar(order, f) == order[ChoiceIndex(f, Len(order))]

(* A generator whose state does not move.                                   *)
AdvanceNone(n) == UNCHANGED << rng_pos, rng_count >>

Advance(n) ==
    /\ rng_pos' = (rng_pos + n) % SeedLen
    /\ rng_count' = IF rng_count + n > RngCap THEN RngCap ELSE rng_count + n

NextRandom(k) == RandomAt(options.seed, rng_pos + k)

(* History of one mark_used call: the dependency it consumes, if any, and   *)
(* the skill it places; sub tells a provider substituted by get_next_skill. *)
LogMark(p, skill, b, sub) ==
    (IF skill \in DictKeys(p.dependencies)
     THEN << [kind |-> "consume", name |-> DictGet(p.dependencies, skill),
              branch |-> b, sub |-> sub] >>
     ELSE <<>>)
    \o << [kind |-> "place", name |-> skill, branch |-> b, sub |-> sub] >>

(* inject_skills lines 293-294 and randomize_tree lines 285-345.            *)
RandomizeTreeSetup ==
    /\ pc = "idle"
    /\ LET p0 == [NewPool EXCEPT !.current_char_class = tree_class]
           p1 == AddSources(p0, source_order, options.hidden_skills)
           order == SortedNames(p1.skills)
           random == NeedsRandomChar(options.action_skill, p0.current_char_class)
           hundredths == ClampedHundredths(Len(order), options.skill_density)
           budgets == Budgets(hundredths, 0)
           originals == [b \in 1..NumBranches |-> from_branch(engine[tree_class].branches[b])]
           news == [b \in 1..NumBranches |->
                      prepare(originals[b], b - 1, budgets[b],
                              [i \in 1..Len(order) |-> R(1)])]
       IN  IF random /\ source_order = <<>>
           THEN \* rng.choice of an empty list raises IndexError
                /\ pool' = [p1 EXCEPT !.skill_order = order]
                /\ pc' = "error"
                /\ UNCHANGED << desired_char, rng_pos, rng_count >>
           ELSE /\ pool' = [p1 EXCEPT !.skill_order = order,
                                      !.original_branches = originals,
                                      !.new_branches = news]
                /\ desired_char' =
                      IF random THEN RandomChar(source_order, NextRandom(0))
                      ELSE IF options.action_skill = "Default" THEN tree_class
                      ELSE options.action_skill
                /\ IF random THEN Advance(1) ELSE UNCHANGED << rng_pos, rng_count >>
                /\ pc' = "action"
    /\ before' = engine[tree_class]
    /\ UNCHANGED << effectState, session, options, source_order, engine, treeLocals, restores, log >>
    /\ UNCHANGED comState

(* Lines 347-353: the action skill is marked used with branch_idx = -1 and  *)
(* written to Root.Tiers[0].Skills.                                         *)
DrawActionSkill ==
    /\ pc = "action"
    /\ LET skill == Character[desired_char].action_skill
           p == mark_used(pool, skill, options.hidden_skills, -1)
       IN  /\ pool' = p
           /\ log' = log \o LogMark(pool, skill, -1, FALSE)
           /\ IF p.err
              THEN /\ pc' = "error"
                   /\ UNCHANGED engine
              ELSE /\ pc' = "tier"
                   /\ engine' = [engine EXCEPT ![tree_class].action_skills = <<skill>>]
    /\ tier' = 0
    /\ branch_idx' = 0
    /\ UNCHANGED << effectState, session, options, source_order, rng_pos, rng_count, desired_char,
                    skill_count, tier_skills, max_points, total_points,
                    restores, before >>
    /\ UNCHANGED comState

CurrentBranch == pool.new_branches[branch_idx + 1]

(* randomize_branch_tier lines 390-438: the cheat weights of this branch    *)
(* and the tier's slot count.                                               *)
BeginTier ==
    /\ pc = "tier"
    /\ LET adjusted == AdjustCheats(CurrentBranch, pool.new_branches, tier,
                                    options.cheats, pool.skill_order)
           d == ExpectedDensity(adjusted)
       IN  /\ pool' = [pool EXCEPT !.new_branches[branch_idx + 1] = adjusted]
           /\ skill_count' = SkillCount(d, NextRandom(0))
           /\ IF CountUsesRandom(d) THEN Advance(1)
              ELSE UNCHANGED << rng_pos, rng_count >>
    /\ tier_skills' = <<>>
    /\ max_points' = 0
    /\ total_points' = 0
    /\ pc' = "draw"
    /\ UNCHANGED << effectState, session, options, source_order, engine, desired_char, tier, branch_idx,
                    restores, log, before >>
    /\ UNCHANGED comState

(* get_next_skill without the dependency test of lines 225-238.             *)
BlockingDepNone(deps, skill_name, hidden) == "None"

(* The first dependency, in dict order, that blocks skill_name              *)
(* (get_next_skill lines 225-228); "None" when the for loop finds none.     *)
BlockingDep(deps, skill_name, hidden) ==
    LET vals == DictValues(deps)
        blocks(i) == IF hidden = "None" /\ skill_name \in Range(DepDef[vals[i]].wanters)
                     THEN TRUE
                     ELSE skill_name \in Range(DepDef[vals[i]].dependers)
    IN  IF \E i \in 1..Len(vals) : blocks(i)
        THEN vals[CHOOSE i \in 1..Len(vals) : blocks(i) /\ \A j \in 1..(i - 1) : ~blocks(j)]
        ELSE "None"

(* One pass of the while loop of get_next_skill (lines 216-242), and, when  *)
(* it returns a skill, lines 444-447 of randomize_branch_tier.              *)
NextSkill ==
    /\ pc = "draw"
    /\ Len(tier_skills) < skill_count
    /\ LET weights == CurrentBranch.skill_weights
           status == ChoicesError(pool.skill_order, weights)
           drawn == Choices(pool.skill_order, weights, NextRandom(0))
           dep == IF options.hidden_skills = "All" THEN "None"
                  ELSE BlockingDep(pool.dependencies, drawn, options.hidden_skills)
           provider == DepDef[dep].providers[
                           ChoiceIndex(NextRandom(1), Len(DepDef[dep].providers))]
           skill == IF dep = "None" THEN drawn ELSE provider
           p == mark_used(pool, skill, options.hidden_skills, branch_idx)
       IN  IF status # "ok"
           THEN \* rng.choices raises: the exception leaves randomize_tree
                /\ pc' = "error"
                /\ UNCHANGED << pool, rng_pos, rng_count, tier_skills, max_points,
                                total_points, log >>
           ELSE IF dep # "None" /\ provider \notin pool.skills
           THEN \* the provider is not in the pool: draw again
                /\ Advance(2)
                /\ UNCHANGED << pool, pc, tier_skills, max_points, total_points, log >>
           ELSE /\ Advance(IF dep = "None" THEN 1 ELSE 2)
                /\ pool' = p
                /\ log' = log \o LogMark(pool, skill, branch_idx, dep # "None")
                /\ pc' = IF p.err THEN "error" ELSE "draw"
                /\ max_points' = Max(max_points, max_grade(skill))
                /\ total_points' = total_points + max_grade(skill)
                /\ tier_skills' = Append(tier_skills, skill)
    /\ UNCHANGED << effectState, session, options, source_order, engine, desired_char, tier, branch_idx,
                    skill_count, restores, before >>
    /\ UNCHANGED comState

(* The free skills appended whatever the tier.                              *)
ExtrasAtAnyTier(t, queue) == queue

(* Lines 459-460: what get_extra_skills hands to tier t of a branch.        *)
ExtrasAt(t, queue) == IF t = 5 THEN queue ELSE <<>>

(* randomize_branch_tier lines 449-460 and the loop control of lines        *)
(* 355-361.                                                                 *)
EndTier ==
    /\ pc = "draw"
    /\ Len(tier_skills) = skill_count
    /\ LET points == IF options.randomize_tiers
                     THEN RandInt(NextRandom(0), 1, Max(1, TwoThirds(total_points)))
                     ELSE max_points
           extras == ExtrasAt(tier, pool.extra_skills)
       IN  /\ pool' = [pool EXCEPT
                  !.new_branches[branch_idx + 1] =
                      [@ EXCEPT !.layout[tier + 1] = TierLayout(skill_count),
                                !.skills[tier + 1] = tier_skills \o extras,
                                !.points_to_unlock[tier + 1] = points,
                                !.skill_count = @ + skill_count,
                                !.slots_left = @ - 3],
                  !.extra_skills = IF tier = 5 THEN <<>> ELSE @]
           /\ IF options.randomize_tiers THEN Advance(1)
              ELSE UNCHANGED << rng_pos, rng_count >>
    /\ IF branch_idx < NumBranches - 1
       THEN /\ branch_idx' = branch_idx + 1
            /\ UNCHANGED tier
            /\ pc' = "tier"
       ELSE /\ branch_idx' = 0
            /\ tier' = IF tier < NumTiers - 1 THEN tier + 1 ELSE tier
            /\ pc' = IF tier < NumTiers - 1 THEN "tier" ELSE "patch"
    /\ UNCHANGED << effectState, session, options, source_order, engine, desired_char, skill_count,
                    tier_skills, max_points, total_points, restores, log, before >>
    /\ UNCHANGED comState

(* Lines 363-364: every new branch is written into the engine.              *)
PatchBranches ==
    /\ pc = "patch"
    /\ engine' = [engine EXCEPT
                    ![tree_class].branches =
                        [b \in 1..NumBranches |-> patch(pool.new_branches[b])]]
    /\ pc' = "randomized"
    /\ UNCHANGED << effectState, session, options, source_order, pool, rng_pos, rng_count, desired_char,
                    treeLocals, restores, log, before >>
    /\ UNCHANGED comState

-----------------------------------------------------------------------------
(* ClassModPatcher.  self.coms is a dict com name -> (dict slot index ->    *)
(* attribute path name), kept as sequences in insertion order.              *)

(* record_coms lines 55-63 for one class mod: a skill-named slot with a     *)
(* null attribute leaves the loop body at continue, before slot_index += 1. *)
RECURSIVE RecordSlots(_, _, _)
RecordSlots(slots, slot_index, skill_slot_map) ==
    IF slots = <<>> THEN skill_slot_map
    ELSE LET s == Head(slots)
         IN  IF s.slot_name = "Skill"
             THEN IF s.attr = "None"
                  THEN RecordSlots(Tail(slots), slot_index, skill_slot_map)
                  ELSE RecordSlots(Tail(slots), slot_index + 1,
                                   Append(skill_slot_map,
                                          [index |-> slot_index, attr |-> s.attr]))
             ELSE RecordSlots(Tail(slots), slot_index + 1, skill_slot_map)

(* ClassModPatcher.iterate_coms: the class mods that require char_class.    *)
iterate_coms(mods, char_class) ==
    SelectSeq(mods, LAMBDA m : m.player_class = char_class)

record_coms(mods, char_class) ==
    LET own == iterate_coms(mods, char_class)
    IN  [ is_none |-> FALSE,
          coms |-> [i \in 1..Len(own) |->
                      [key |-> own[i].name,
                       map |-> RecordSlots(own[i].slots, 0, <<>>)]] ]

(* unrealsdk.find_object("ClassModDefinition", com_name).                   *)
ModIndex(mods, name) == CHOOSE i \in 1..Len(mods) : mods[i].name = name

(* self.coms[com_name].                                                     *)
ComMap(coms, name) == coms[CHOOSE i \in 1..Len(coms) : coms[i].key = name].map

(* Lines 132-136 for one class mod.                                         *)
RECURSIVE RestoreSlots(_, _)
RestoreSlots(slots, skill_slot_map) ==
    IF skill_slot_map = <<>> THEN slots
    ELSE LET e == Head(skill_slot_map)
         IN  RestoreSlots([slots EXCEPT ![e.index + 1].attr = e.attr],
                          Tail(skill_slot_map))

(* Lines 131-136 from class mod i on; err is set when self.coms has no      *)
(* entry for a class mod of char_class (KeyError).                          *)
RECURSIVE UnrandomizeFrom(_, _, _, _)
UnrandomizeFrom(patcher, mods, char_class, i) ==
    IF i > Len(mods) THEN [mods |-> mods, err |-> FALSE]
    ELSE IF mods[i].player_class # char_class
    THEN UnrandomizeFrom(patcher, mods, char_class, i + 1)
    ELSE IF \A k \in 1..Len(patcher.coms) : patcher.coms[k].key # mods[i].name
    THEN [mods |-> mods, err |-> TRUE]
    ELSE UnrandomizeFrom(
             patcher,
             [mods EXCEPT ![i].slots =
                 RestoreSlots(@, ComMap(patcher.coms, mods[i].name))],
             char_class, i + 1)

unrandomize_coms(patcher, mods, char_class) ==
    IF patcher.is_none THEN [mods |-> mods, err |-> FALSE]
    ELSE UnrandomizeFrom(patcher, mods, char_class, 1)

(* special_com_name.startswith("GD_Aster").                                 *)
IsAster(name) == name \in {"GD_Aster.B"}

(* A special-mod test that accepts every class mod.                         *)
RejectSpecialNever(name, skill_slot_map, cheat_skills) == FALSE

(* Lines 92-100: whether the while loop rejects the class mod it drew.      *)
RejectSpecial(name, skill_slot_map, cheat_skills) ==
    IF IsAster(name) THEN TRUE
    ELSE IF Cardinality(cheat_skills) > 3 THEN Len(skill_slot_map) < 4
    ELSE Len(skill_slot_map) > 3

(* inject_skills line 280-291: the skills whose cheat entry asks for a      *)
(* class mod.                                                               *)
ComSkills(cheats) == { n \in DOMAIN cheats : CheatComFlag(n) }

(* randomize_coms going on whatever the number of skills.                   *)
TooFewSkillsNever(skills) == FALSE

(* randomize_coms line 83.                                                  *)
TooFewSkills(skills) == Len(skills) < MinComSkills

(* inject_skills lines 302-307 and randomize_coms lines 80-85.              *)
RecordComs ==
    /\ pc = "randomized"
    /\ options.randomize_coms
    /\ ~com_patched
    /\ com_patcher' = record_coms(class_mods, pool.current_char_class)
    /\ com_before' = class_mods
    /\ IF TooFewSkills(pool.class_mod_skills)
       THEN /\ pc' = "injected"
            /\ com_patched' = TRUE
            /\ com_loop' = [NewComLoop EXCEPT !.given = Len(pool.class_mod_skills)]
       ELSE /\ pc' = "special"
            /\ com_loop' = [NewComLoop EXCEPT !.given = Len(pool.class_mod_skills),
                                              !.cheat_skills = ComSkills(options.cheats)]
            /\ UNCHANGED com_patched
    /\ UNCHANGED << effectState, session, options, source_order, engine, class_mods, pool, rng_pos,
                    rng_count, desired_char, treeLocals, restores, log, before,
                    com_offset >>

(* inject_skills line 302-303 when class mods are not to be randomized.     *)
SkipComs ==
    /\ pc = "randomized"
    /\ ~(options.randomize_coms /\ ~com_patched)
    /\ pc' = "injected"
    /\ UNCHANGED << effectState, session, options, source_order, engine, pool, rng_pos, rng_count,
                    desired_char, treeLocals, restores, log, before >>
    /\ UNCHANGED comState

(* One pass of the while loop of randomize_coms lines 87-100.               *)
ChooseSpecialCom ==
    /\ pc = "special"
    /\ LET keys == com_patcher.coms
           name == keys[ChoiceIndex(NextRandom(0), Len(keys))].key
       IN  IF Len(keys) = 0
           THEN \* rng.choice of an empty list raises IndexError
                /\ pc' = "error"
                /\ UNCHANGED << com_loop, rng_pos, rng_count, com_offset >>
           ELSE /\ Advance(1)
                /\ com_offset' = IF com_offset < 0 THEN rng_count ELSE com_offset
                /\ IF RejectSpecial(name, ComMap(keys, name), com_loop.cheat_skills)
                   THEN UNCHANGED << pc, com_loop >>
                   ELSE /\ pc' = "slots"
                        /\ com_loop' = [com_loop EXCEPT !.special_com_name = name,
                                                        !.com = 1, !.slot = 1,
                                                        !.used_skills = {}]
    /\ UNCHANGED << effectState, session, options, source_order, engine, class_mods, pool, com_patcher,
                    com_patched, desired_char, treeLocals, restores, log, before,
                    com_before >>

(* The class mod and the slot the loops of lines 103-119 stand at.          *)
LoopCom == com_patcher.coms[com_loop.com]

LoopSlot == LoopCom.map[com_loop.slot]

InSlotLoop ==
    /\ pc = "slots"
    /\ com_loop.com <= Len(com_patcher.coms)
    /\ com_loop.slot <= Len(LoopCom.map)

TakesCheat ==
    LoopCom.key = com_loop.special_com_name /\ com_loop.cheat_skills # {}

(* Lines 116-119: the slot's attribute becomes the skill's attribute_def,   *)
(* which is written as the skill's name; cheats_left is cheat_skills after  *)
(* the pop of line 110, or as it was when the skill was drawn.              *)
SetSlot(skill, cheats_left) ==
    /\ class_mods' = [class_mods EXCEPT
          ![ModIndex(class_mods, LoopCom.key)].slots[LoopSlot.index + 1].attr = skill]
    /\ com_loop' = [com_loop EXCEPT !.used_skills = @ \cup {skill},
                                    !.slot = @ + 1,
                                    !.cheat_skills = cheats_left]

(* Lines 109-110: cheat_skills.pop() takes an arbitrary element of the set. *)
AssignCheatSlot ==
    /\ InSlotLoop
    /\ TakesCheat
    /\ \E skill \in com_loop.cheat_skills :
          SetSlot(skill, com_loop.cheat_skills \ {skill})
    /\ UNCHANGED << effectState, session, options, source_order, engine, pool, com_patcher, com_patched,
                    rng_pos, rng_count, desired_char, pc, treeLocals, restores,
                    log, before, com_before, com_offset >>

(* A rejection test that lets every skill through.                          *)
IsUsedNever(skill, used_skills) == FALSE

(* randomize_coms line 114.                                                 *)
IsUsed(skill, used_skills) == skill \in used_skills

(* One pass of the while loop of lines 112-115, and lines 116-119 when it   *)
(* leaves the loop.                                                         *)
AssignRandomSlot ==
    /\ InSlotLoop
    /\ ~TakesCheat
    /\ LET skills == pool.class_mod_skills
           skill == skills[ChoiceIndex(NextRandom(0), Len(skills))]
       IN  /\ Advance(1)
           /\ IF IsUsed(skill, com_loop.used_skills)
              THEN UNCHANGED << class_mods, com_loop >>
              ELSE SetSlot(skill, com_loop.cheat_skills)
    /\ UNCHANGED << effectState, session, options, source_order, engine, pool, com_patcher, com_patched,
                    desired_char, pc, treeLocals, restores, log, before,
                    com_before, com_offset >>

(* Line 103-104: the next class mod, with a fresh used_skills.              *)
NextCom ==
    /\ pc = "slots"
    /\ com_loop.com <= Len(com_patcher.coms)
    /\ com_loop.slot > Len(LoopCom.map)
    /\ com_loop' = [com_loop EXCEPT !.com = @ + 1, !.slot = 1, !.used_skills = {}]
    /\ UNCHANGED << effectState, session, options, source_order, engine, class_mods, pool, com_patcher,
                    com_patched, rng_pos, rng_count, desired_char, pc, treeLocals,
                    restores, log, before, com_before, com_offset >>

(* randomize_coms returns; inject_skills lines 314-316.                     *)
FinishComs ==
    /\ pc = "slots"
    /\ com_loop.com > Len(com_patcher.coms)
    /\ com_patched' = TRUE
    /\ pc' = "injected"
    /\ UNCHANGED << effectState, session, options, source_order, engine, class_mods, pool, com_patcher,
                    rng_pos, rng_count, desired_char, treeLocals, com_loop,
                    restores, log, before, com_before, com_offset >>

(* reset_game lines 328-334.  When unrandomize_coms raises, reset_game      *)
(* ends there and com_patched stays set.                                    *)
ResetGame ==
    /\ pc = "injected"
    /\ LET r == unrandomize_coms(com_patcher, class_mods, pool.current_char_class)
       IN  IF com_patched
           THEN /\ class_mods' = r.mods
                /\ com_patched' = r.err
           ELSE UNCHANGED << class_mods, com_patched >>
    /\ pc' = "reset"
    /\ UNCHANGED << effectState, session, options, source_order, engine, pool, com_patcher,
                    rng_pos, rng_count, desired_char, treeLocals, com_loop,
                    restores, log, before, com_before, com_offset >>

(* The game initialises a skill tree again, of the same or of another       *)
(* class, after the density option was lowered: inject_skills starts anew.  *)
InjectAgain ==
    /\ pc = "injected"
    /\ injects < MaxInjects
    /\ options \in DefaultOptions
    /\ injects' = injects + 1
    /\ tree_class' \in {"X", "Y"}
    /\ options' = [options EXCEPT !.skill_density = 5]
    /\ pc' = "idle"
    /\ rng_pos' = 0
    /\ rng_count' = 0
    /\ desired_char' = "None"
    /\ tier' = 0
    /\ branch_idx' = 0
    /\ skill_count' = 0
    /\ tier_skills' = <<>>
    /\ max_points' = 0
    /\ total_points' = 0
    /\ com_loop' = NewComLoop
    /\ restores' = 0
    /\ log' = <<>>
    /\ com_offset' = -1
    /\ UNCHANGED << effectState, source_order, engine, class_mods, pool,
                    com_patcher, com_patched, before, com_before, original >>

(* SkillPool.unrandomize_tree, called once randomize_tree has returned or   *)
(* raised.                                                                  *)
UnrandomizeTree ==
    /\ pc \in {"injected", "reset", "error"}
    /\ restores < MaxRestores
    /\ engine' = IF pool.original_branches # <<>>
                 THEN [engine EXCEPT
                         ![pool.current_char_class].branches =
                             [b \in 1..NumBranches |->
                                 patch(pool.original_branches[b])]]
                 ELSE engine
    /\ pool' = [pool EXCEPT !.original_branches = <<>>]
    /\ restores' = restores + 1
    /\ UNCHANGED << effectState, session, options, source_order, rng_pos, rng_count, desired_char, pc,
                    treeLocals, log, before >>
    /\ UNCHANGED comState

Next ==
    \/ RandomizeTreeSetup
    \/ DrawActionSkill
    \/ BeginTier
    \/ NextSkill
    \/ EndTier
    \/ PatchBranches
    \/ RecordComs
    \/ SkipComs
    \/ ChooseSpecialCom
    \/ AssignCheatSlot
    \/ AssignRandomSlot
    \/ NextCom
    \/ FinishComs
    \/ ResetGame
    \/ InjectAgain
    \/ UnrandomizeTree

Spec == Init /\ [][Next]_vars

(* A Changes instance and its callers, the randomizer of skill trees idle.  *)
ChangesInit ==
    /\ InitOf({CHOOSE in \in Inputs : TRUE})
    /\ objects \in [Keys -> UNION {GameValues(key) : key \in Keys}]
    /\ \A key \in Keys : objects[key] \in GameValues(key)
    /\ NewChanges
    /\ ScramblersIdle

ChangesSpec == ChangesInit /\ [][ChangesNext]_vars

-----------------------------------------------------------------------------
(* The slot counts of one branch over its six tiers, for any budget from 0  *)
(* to 18 and any value rng.random() may return at a tier.                   *)

(* Branch.prepare for the first branch with a budget of expected_skills.    *)
PrepareBranch ==
    /\ pc = "idle"
    /\ \E expected_skills \in 0..(3 * NumTiers) :
          pool' = [pool EXCEPT
                     !.new_branches =
                        << prepare(from_branch(engine[tree_class].branches[1]),
                                   0, expected_skills, <<>>) >>]
    /\ pc' = "tier"
    /\ UNCHANGED << effectState, session, options, source_order, engine, rng_pos,
                    rng_count, desired_char, treeLocals, restores, log, before >>
    /\ UNCHANGED comState

(* randomize_branch_tier lines 424-438 and 456-457 for that branch, f being *)
(* the value of rng.random().                                               *)
CountTier ==
    /\ pc = "tier"
    /\ tier < NumTiers
    /\ \E f \in Fractions :
          LET count == SkillCount(ExpectedDensity(pool.new_branches[1]), f)
          IN  /\ skill_count' = count
              /\ pool' = [pool EXCEPT
                            !.new_branches[1] =
                               [@ EXCEPT !.layout[tier + 1] = TierLayout(count),
                                         !.skill_count = @ + count,
                                         !.slots_left = @ - 3]]
    /\ tier' = tier + 1
    /\ UNCHANGED << effectState, session, options, source_order, engine, rng_pos,
                    rng_count, desired_char, pc, branch_idx, tier_skills, max_points,
                    total_points, restores, log, before >>
    /\ UNCHANGED comState

SlotNext ==
    \/ PrepareBranch
    \/ CountTier

SlotInit ==
    /\ InitOf({CHOOSE in \in Inputs : TRUE})
    /\ ChangesIdle

SlotSpec == SlotInit /\ [][SlotNext]_vars

-----------------------------------------------------------------------------
(* The loading movies of EffectRandomizer under any master seed and game,   *)
(* with the options switched between them.                                  *)
ScramblerInit ==
    /\ InitOf({CHOOSE in \in Inputs : TRUE})
    /\ objects = [key \in Keys |-> CHOOSE value \in GameValues(key) : TRUE]
    /\ NewChanges
    /\ seed_option \in MasterSeeds
    /\ game \in Games
    /\ ScramblersNew

ScramblerSpec == ScramblerInit /\ [][ScramblerNext]_vars

-----------------------------------------------------------------------------
(* Properties.                                                              *)

(* The skill tree inject_skills is called for.                              *)
Tree == engine[tree_class]

(* The engine holds the tree randomize_tree produced.                       *)
TreeProduced ==
    /\ pc \in {"randomized", "special", "slots", "injected", "reset"}
    /\ restores = 0

(* The cells <<branch, tier, position>> of a tree that hold a skill.        *)
Cells(branches) ==
    { c \in (1..NumBranches) \X (1..NumTiers) \X (1..Len(NameOrder)) :
        c[3] <= Len(branches[c[1]].skills[c[2]]) }

NameAt(branches, c) == branches[c[1]].skills[c[2]][c[3]]

Placed(kind, sub) ==
    { i \in 1..Len(log) : log[i].kind = kind /\ log[i].sub = sub /\ log[i].branch >= 0 }

(* C1: in the tree randomize_tree produces, no skill name occupies two      *)
(* cells of the three branches and six tiers, whether it was placed by a    *)
(* weighted draw or by provider substitution.                               *)
C1_NoDuplicateSkill ==
    TreeProduced =>
        \A c1, c2 \in Cells(Tree.branches) :
            NameAt(Tree.branches, c1) = NameAt(Tree.branches, c2) => c1 = c2

(* A produced tree that holds skills placed by weighted draws and a         *)
(* provider placed by substitution.                                         *)
C1_Witness ==
    /\ TreeProduced
    /\ Placed("place", TRUE) # {}
    /\ Cardinality(Placed("place", FALSE)) >= 2

(* C2: once a provider drawn for branch b >= 0 has consumed a dependency,   *)
(* every themed skill of that dependency placed afterwards is placed in     *)
(* branch b; after the action skill (branch -1) consumed a dependency, its  *)
(* themed skills that are still to be placed keep a non-zero weight in      *)
(* every branch.                                                            *)
Themed(i) == Range(ThemedSkills(log[i].name, options.hidden_skills))

LaterPlaced(i) ==
    { j \in (i + 2)..Len(log) : log[j].kind = "place" /\ log[j].name \in Themed(i) }

C2_DependencyExclusivity ==
    \A i \in 1..Len(log) :
        log[i].kind = "consume" =>
            IF log[i].branch >= 0
            THEN \A j \in LaterPlaced(i) : log[j].branch = log[i].branch
            ELSE \A n \in Themed(i) \cap pool.skills :
                     (\A j \in 1..Len(log) : log[j].name # n) =>
                         \A b \in 1..Len(pool.new_branches) :
                             ~RIsZero(pool.new_branches[b].skill_weights[
                                          IndexOf(pool.skill_order, n)])

(* A run in which a dependency was consumed in a branch and one of its      *)
(* themed skills was placed later, and the action skill consumed another.   *)
C2_Witness ==
    /\ \E i \in 1..Len(log) :
          log[i].kind = "consume" /\ log[i].branch >= 0 /\ LaterPlaced(i) # {}
    /\ \E i \in 1..Len(log) :
          log[i].kind = "consume" /\ log[i].branch < 0 /\ LaterPlaced(i) # {}

(* C3: every cheat whose skill is in the pool sits in exactly one cell of   *)
(* the produced tree, at a tier not above the cheat's tier.                 *)
C3_CheatPlaced ==
    TreeProduced =>
        \A n \in DOMAIN options.cheats \cap pool.skills :
            \E c \in Cells(Tree.branches) :
                /\ NameAt(Tree.branches, c) = n
                /\ c[2] - 1 <= options.cheats[n]
                /\ \A c2 \in Cells(Tree.branches) :
                       NameAt(Tree.branches, c2) = n => c2 = c

(* C4: the action skill randomize_tree writes is the one the sorted         *)
(* enumeration of enabled_sources yields for the seed, whatever order the   *)
(* set enumerates in.                                                       *)
SortedSources == SelectSeq(<<"X", "Y", "Z">>, LAMBDA c : c \in EnabledSources)

C4_OrderIndependent ==
    (pc = "tier" /\ NeedsRandomChar(options.action_skill, pool.current_char_class)) =>
        Tree.action_skills =
            << Character[RandomChar(SortedSources,
                                    RandomAt(options.seed, 0))].action_skill >>

(* C5: after randomize_tree and unrandomize_tree the engine's branches are  *)
(* what they were when randomize_tree began.                                *)
C5_TreeRoundTrip ==
    (pc \in {"injected", "reset"} /\ restores >= 1) => Tree.branches = before.branches

(* C6: after record_coms, randomize_coms and unrandomize_coms every slot of *)
(* every class mod holds the attribute it held before.                      *)
C6_ComRoundTrip ==
    (pc = "reset" /\ ~com_patcher.is_none) => class_mods = com_before

(* C7: at every weighted draw every entry of every branch's skill_weights   *)
(* is >= 0.                                                                 *)
C7_WeightsNonNegative ==
    pc = "draw" =>
        \A b \in 1..Len(pool.new_branches) :
            \A i \in 1..Len(pool.skill_order) :
                ~RLess(pool.new_branches[b].skill_weights[i], R(0))

(* The number of skills get_next_skill drew for a tier: its skills without  *)
(* the free skills appended to tier 5, which are never in the pool.         *)
DrawnCount(branch, t) ==
    Cardinality({ i \in 1..Len(branch.skills[t]) : branch.skills[t][i] \in pool.skills })

(* C8: in every tier of every branch of the produced tree the two outer     *)
(* cells of the layout are equal and the centre cell is occupied exactly    *)
(* when the number of skills drawn for the tier is odd.                     *)
C8_LayoutSymmetric ==
    TreeProduced =>
        \A b \in 1..NumBranches : \A t \in 1..NumTiers :
            LET l == Tree.branches[b].layout[t]
            IN  /\ l[1] = l[3]
                /\ l[2] <=> (DrawnCount(Tree.branches[b], t) % 2 = 1)

TiersWith(n) ==
    { c \in (1..NumBranches) \X (1..NumTiers) :
        DrawnCount(Tree.branches[c[1]], c[2]) = n }

(* A produced tree with a tier of three drawn skills, a tier of two, and a  *)
(* tier 5 that also holds a free skill.                                     *)
C8_Witness ==
    /\ TreeProduced
    /\ TiersWith(3) # {}
    /\ TiersWith(2) # {}
    /\ \E b \in 1..NumBranches :
          Len(Tree.branches[b].skills[NumTiers])
              > DrawnCount(Tree.branches[b], NumTiers)

(* C9: the generator randomize_coms draws from has produced no value for    *)
(* tree synthesis.                                                          *)
C9_IndependentStreams == com_offset <= 0

(* C9, as the code has it: randomize_coms draws from the generator tree     *)
(* synthesis drew from, so when it draws its first value that generator     *)
(* has produced at least one value for every skill placed in the branches   *)
(* (counted up to RngCap).                                                  *)
PlacedInTree == Cardinality(Placed("place", TRUE) \cup Placed("place", FALSE))

C9_SharedStream ==
    com_offset >= 0 =>
        com_offset >= (IF PlacedInTree > RngCap THEN RngCap ELSE PlacedInTree)

(* randomize_coms has assigned the slots of every class mod after a tree    *)
(* synthesis that consumed random values.                                   *)
C9_Witness ==
    /\ pc = "injected"
    /\ com_patched
    /\ com_loop.special_com_name # "None"
    /\ com_offset >= MinComSkills

(* C10: once the pool is built it holds an enabled character's              *)
(* misdocumented skills exactly when the policy is not "None" and its       *)
(* suppressed skills exactly when the policy is "All".                      *)
C10_VisibilityPolicy ==
    pc = "action" =>
        \A c \in EnabledSources :
            /\ Range(Character[c].pure_skills) \subseteq pool.skills
            /\ \A n \in Range(Character[c].misdocumented_skills) :
                   n \in pool.skills <=> options.hidden_skills # "None"
            /\ \A n \in Range(Character[c].suppressed_skills) :
                   n \in pool.skills <=> options.hidden_skills = "All"

(* The cheats that name a skill the pool does not hold.                     *)
UnlistedCheats == DOMAIN options.cheats \ pool.skills

C12_DrawAlwaysPossible ==
    (pc = "draw" /\ Len(tier_skills) < skill_count) =>
        \E i \in 1..Len(pool.skill_order) :
            RLess(R(0), CurrentBranch.skill_weights[i])

(* C13: when randomize_tree has raised, the engine's tree is as it was when *)
(* randomize_tree was called: the branches and the tier-0 action skill.     *)
C13_FailureWritesNothing ==
    (pc = "error" /\ restores = 0) =>
        /\ Tree.branches = before.branches
        /\ Tree.action_skills = before.action_skills

(* How often the free skill g stands in extra_skills or in the last tier of *)
(* a new branch that randomize_branch_tier has filled (slots_left = 0).     *)
GrantCount(g) ==
    LET n(seq) == Cardinality({ i \in 1..Len(seq) : seq[i] = g })
        filled(b) == IF pool.new_branches[b].slots_left = 0
                     THEN n(pool.new_branches[b].skills[NumTiers]) ELSE 0
    IN  n(pool.extra_skills)
          + (IF pool.new_branches = <<>> THEN 0
             ELSE filled(1) + filled(2) + filled(3))

(* C14: in one run a Dependency is consumed at most once; once consumed,    *)
(* none of its providers is a key of the registry, and each of its free     *)
(* skills has been granted at most once.                                    *)
C14_ConsumedOnce ==
    /\ \A i, j \in 1..Len(log) :
          (log[i].kind = "consume" /\ log[j].kind = "consume"
              /\ log[i].name = log[j].name) => i = j
    /\ \A i \in 1..Len(log) :
          log[i].kind = "consume" =>
              Range(DepDef[log[i].name].providers) \cap DictKeys(pool.dependencies) = {}
    /\ \A d \in DOMAIN DepDef : \A g \in Range(DepDef[d].extra_skills) :
          GrantCount(g) <= 1

(* A produced tree in which a sibling provider was placed after the         *)
(* dependency was consumed, and the dependency's free skill was granted.    *)
C14_Witness ==
    /\ TreeProduced
    /\ \E i, j \in 1..Len(log) :
          /\ log[i].kind = "consume"
          /\ j > i + 1
          /\ log[j].kind = "place"
          /\ log[j].name \in Range(DepDef[log[i].name].providers)
          /\ \E g \in Range(DepDef[log[i].name].extra_skills) : GrantCount(g) = 1

(* The dependencies registered in this run: those of the enabled sources.   *)
RegisteredDeps ==
    UNION { Range(Character[c].dependencies) : c \in EnabledSources }

(* The log entries that place a depender of dependency d in a branch.       *)
DependerPlacements(d) ==
    { j \in 1..Len(log) :
        /\ log[j].kind = "place"
        /\ log[j].branch >= 0
        /\ log[j].name \in Range(DepDef[d].dependers) }

(* The log entries before j that place a provider of d as the action skill *)
(* or in the branch of entry j.                                             *)
ProviderBefore(d, j) ==
    { i \in 1..(j - 1) :
        /\ log[i].kind = "place"
        /\ log[i].name \in Range(DepDef[d].providers)
        /\ log[i].branch \in {-1, log[j].branch} }

(* C15: under policy "None" or "Misdocumented" a depender of a registered   *)
(* Dependency is placed in a branch only after one of the dependency's      *)
(* providers was placed as the action skill or in that branch.              *)
C15_ProviderFirst ==
    options.hidden_skills \in {"None", "Misdocumented"} =>
        \A d \in RegisteredDeps : \A j \in DependerPlacements(d) :
            ProviderBefore(d, j) # {}

(* A produced tree that holds a depender behind a provider of its own       *)
(* branch, and a provider that get_next_skill substituted.                  *)
C15_Witness ==
    /\ TreeProduced
    /\ options.hidden_skills \in {"None", "Misdocumented"}
    /\ \E d \in RegisteredDeps : \E j \in DependerPlacements(d) :
          \E i \in ProviderBefore(d, j) : log[i].branch >= 0
    /\ \E i \in 1..Len(log) : log[i].kind = "place" /\ log[i].sub

(* C16: once reset_game has run, each skill tree of the engine, its three   *)
(* branches and its tier-0 action skill, is as it was before the first      *)
(* inject_skills call.                                                      *)
C16_ResetRestoresTree ==
    (pc = "reset" /\ restores = 0) => engine = original.engine

(* C17: once reset_game has run, every slot of every class mod holds the    *)
(* attribute it held before the first inject_skills call.                   *)
C17_ResetRestoresComs ==
    pc = "reset" =>
        \A i \in 1..Len(class_mods) :
            \A k \in 1..Len(class_mods[i].slots) :
                class_mods[i].slots[k].attr = original.class_mods[i].slots[k].attr

(* C18: when randomize_coms was given fewer than 5 skills, the class mods   *)
(* are as record_coms found them and randomize_coms has drawn no random     *)
(* value.                                                                   *)
C18_FewSkillsNoAssignment ==
    (pc = "injected" /\ com_loop.given >= 0 /\ com_loop.given < MinComSkills) =>
            /\ class_mods = com_before
            /\ com_offset = -1

(* randomize_coms has returned after being given between one and four      *)
(* skills.                                                                  *)
C18_Witness ==
    /\ pc = "injected"
    /\ com_patched
    /\ com_loop.given >= 1
    /\ com_loop.given < MinComSkills

(* randomize_coms has chosen its special class mod.                         *)
SpecialChosen ==
    pc \in {"slots", "injected"} /\ com_loop.special_com_name # "None"

(* C19: the special class mod is not a GD_Aster one; it has at least four   *)
(* recorded skill slots when more than three cheat skills were handed to    *)
(* randomize_coms, and at most three otherwise.                             *)
C19_SpecialComShape ==
    SpecialChosen =>
        LET n == Len(ComMap(com_patcher.coms, com_loop.special_com_name))
        IN  /\ ~IsAster(com_loop.special_com_name)
            /\ IF Cardinality(ComSkills(options.cheats)) > 3 THEN n >= 4 ELSE n <= 3

(* A four-slot mod was chosen for more than three cheat skills and every    *)
(* class mod has been assigned.                                             *)
C19_Witness ==
    /\ pc = "injected"
    /\ com_loop.special_com_name # "None"
    /\ Cardinality(ComSkills(options.cheats)) > 3
    /\ Len(ComMap(com_patcher.coms, com_loop.special_com_name)) >= 4

(* The skills randomize_coms has assigned to class mod c so far: the        *)
(* attributes of the recorded slots its loop has passed.                    *)
AssignedSkills(c) ==
    LET map == com_patcher.coms[c].map
        done == IF c < com_loop.com THEN Len(map)
                ELSE IF c = com_loop.com THEN com_loop.slot - 1 ELSE 0
        mod == class_mods[ModIndex(class_mods, com_patcher.coms[c].key)]
    IN  [k \in 1..done |-> mod.slots[map[k].index + 1].attr]

(* C20: the skills randomize_coms assigns to the slots of one class mod are *)
(* pairwise different.                                                      *)
C20_NoRepeatInMod ==
    SpecialChosen =>
        \A c \in 1..Len(com_patcher.coms) :
            \A k1, k2 \in 1..Len(AssignedSkills(c)) :
                AssignedSkills(c)[k1] = AssignedSkills(c)[k2] => k1 = k2

(* Every class mod is assigned, and one of them took a cheat skill and a    *)
(* randomly drawn skill.                                                    *)
C20_Witness ==
    /\ pc = "injected"
    /\ com_loop.special_com_name # "None"
    /\ \E c \in 1..Len(com_patcher.coms) :
          /\ Len(AssignedSkills(c)) >= 2
          /\ \E k \in 1..Len(AssignedSkills(c)) :
                AssignedSkills(c)[k] \in ComSkills(options.cheats)
          /\ \E k \in 1..Len(AssignedSkills(c)) :
                AssignedSkills(c)[k] \notin ComSkills(options.cheats)

(* C21: an unwind that follows set_obj, edit_obj and commit calls only      *)
(* leaves every property written since the instance was created or last     *)
(* unwound with the value it had then (later undo entries are applied       *)
(* before earlier ones), and leaves the undo log empty.                     *)
C21_UnwindRestores ==
    [][(Unwind /\ direct = {}) =>
          /\ \A key \in modified : objects'[key] = first[key]
          /\ undo_log' = <<>>]_vars

(* C22: after unwind a property assigned by set_obj_direct holds the value  *)
(* it had before the assignment.                                            *)
C22_DirectRestored ==
    [][Unwind => \A key \in direct : objects'[key] = first[key]]_vars

(* C23: throughout randomize_tree each new branch's total_weight is the sum *)
(* of its skill_weights.                                                    *)
C23_TotalIsSum ==
    \A b \in 1..Len(pool.new_branches) :
        pool.new_branches[b].total_weight = RSum(pool.new_branches[b].skill_weights)

(* The budgets Branch.prepare was given.                                    *)
ExpectedSkills == [b \in 1..Len(pool.new_branches) |-> pool.new_branches[b].expected_skills]

(* The statement of C24 as written: the budgets never grow from one branch  *)
(* to the next, and none exceeds 18.                                        *)
C24_EarlierBranchLarger ==
    pc = "action" =>
        /\ ExpectedSkills[1] >= ExpectedSkills[2]
        /\ ExpectedSkills[2] >= ExpectedSkills[3]
        /\ \A b \in 1..NumBranches : ExpectedSkills[b] <= 18

(* C24: the budgets randomize_tree gives the branches never shrink from one *)
(* branch to the next and none exceeds 18, for the pool it built and every  *)
(* density from 0 to 100.                                                   *)
C24_LaterBranchLarger ==
    pc = "action" =>
        /\ ExpectedSkills = Budgets(ClampedHundredths(Len(pool.skill_order),
                                                      options.skill_density), 0)
        /\ \A density \in 0..100 :
              LET e == Budgets(ClampedHundredths(Len(pool.skill_order), density), 0)
              IN  e[1] <= e[2] /\ e[2] <= e[3] /\ e[3] <= 18

(* Budgets were computed for a density that leaves the first branch with    *)
(* fewer skills than the last.                                              *)
C24_Witness ==
    /\ pc = "action"
    /\ ExpectedSkills[1] < ExpectedSkills[3]

(* C25: the budget a branch has still to draw never exceeds the slots it    *)
(* has left, and a branch whose six tiers are filled holds as many drawn    *)
(* skills as the budget prepare was given.                                  *)
C25_BudgetMet ==
    /\ \A b \in 1..Len(pool.new_branches) :
          pool.new_branches[b].expected_skills - pool.new_branches[b].skill_count
              <= pool.new_branches[b].slots_left
    /\ \A b \in 1..Len(pool.new_branches) :
          pool.new_branches[b].slots_left = 0 =>
              pool.new_branches[b].skill_count = pool.new_branches[b].expected_skills

-----------------------------------------------------------------------------
(* C26: in every generated branch no empty tier is followed by a later      *)
(* non-empty tier, the granted skills appended at tier 5 counting as        *)
(* skills of that tier.                                                     *)
C26_NoGapInBranch ==
    pc = "patch" =>
        \A b \in 1..Len(pool.new_branches) :
            \A t \in 1..NumTiers : \A u \in (t + 1)..NumTiers :
                pool.new_branches[b].skills[t] = <<>> =>
                    pool.new_branches[b].skills[u] = <<>>

-----------------------------------------------------------------------------
(* C27: when randomize_tree has returned, every skill granted by a          *)
(* dependency consumed in the run, the action-skill draw included, stands   *)
(* exactly once in the tree, in tier 5 of a branch and in no tier below,    *)
(* and the extra_skills queue is empty.                                     *)
GrantedSkills ==
    UNION { Range(DepDef[log[i].name].extra_skills) :
                i \in { j \in 1..Len(log) : log[j].kind = "consume" } }

C27_GrantsInLastTier ==
    pc = "randomized" =>
        /\ \A g \in GrantedSkills :
              /\ Cardinality({ c \in Cells(Tree.branches) :
                                   NameAt(Tree.branches, c) = g }) = 1
              /\ \A c \in Cells(Tree.branches) :
                    NameAt(Tree.branches, c) = g => c[2] = NumTiers
        /\ pool.extra_skills = <<>>

(* A tree returned after the action-skill draw granted one free skill and   *)
(* a draw in a branch granted another.                                      *)
C27_Witness ==
    /\ pc = "randomized"
    /\ \E i, j \in 1..Len(log) :
          /\ log[i].kind = "consume" /\ log[i].branch = -1
          /\ DepDef[log[i].name].extra_skills # <<>>
          /\ log[j].kind = "consume" /\ log[j].branch >= 0
          /\ DepDef[log[j].name].extra_skills # <<>>

-----------------------------------------------------------------------------
(* C28: at a branch-tier whose tier lies beyond the tier T of a forced      *)
(* skill of the pool, the cheat adjustment sets the skill's weight in the   *)
(* branch to branch.total_weight * PRIORITY_WEIGHT before the tier's draws  *)
(* when the weight is not zero, and leaves a zero weight at zero.           *)
OverdueCheats ==
    { i \in 1..Len(pool.skill_order) :
          /\ pool.skill_order[i] \in DOMAIN options.cheats
          /\ options.cheats[pool.skill_order[i]] < tier }

C28_OverduePriority ==
    [][BeginTier =>
          \A i \in OverdueCheats :
              pool'.new_branches[branch_idx + 1].skill_weights[i] =
                  IF RIsZero(CurrentBranch.skill_weights[i]) THEN R(0)
                  ELSE RMulInt(CurrentBranch.total_weight, PRIORITY_WEIGHT)]_vars

(* The draws of a branch-tier are about to start with an overdue forced     *)
(* skill at the priority weight, in a tree where another overdue forced     *)
(* skill of the branch has weight zero.                                     *)
C28_Witness ==
    /\ pc = "draw"
    /\ tier_skills = <<>>
    /\ \E i \in OverdueCheats :
          /\ ~RIsZero(CurrentBranch.total_weight)
          /\ CurrentBranch.skill_weights[i] =
                 RMulInt(CurrentBranch.total_weight, PRIORITY_WEIGHT)
    /\ \E j \in OverdueCheats : RIsZero(CurrentBranch.skill_weights[j])

-----------------------------------------------------------------------------
(* C29: for a forced skill of tier T whose weight is zero in another branch *)
(* and not zero in the current one, the cheat adjustment at tier t <= T     *)
(* leaves the weight at branch.total_weight * PRIORITY_WEIGHT when t = T    *)
(* and at branch.total_weight / (T - t) when t < T, whatever the index of   *)
(* the branch.                                                              *)
ConfinedCheats ==
    { i \in 1..Len(pool.skill_order) :
          /\ pool.skill_order[i] \in DOMAIN options.cheats
          /\ tier <= options.cheats[pool.skill_order[i]]
          /\ ~RIsZero(CurrentBranch.skill_weights[i])
          /\ \E b \in 1..Len(pool.new_branches) :
                RIsZero(pool.new_branches[b].skill_weights[i]) }

C29_ConfinedCheatWeight ==
    [][BeginTier =>
          \A i \in ConfinedCheats :
              pool'.new_branches[branch_idx + 1].skill_weights[i] =
                  IF tier = options.cheats[pool.skill_order[i]]
                  THEN RMulInt(CurrentBranch.total_weight, PRIORITY_WEIGHT)
                  ELSE RDivInt(CurrentBranch.total_weight,
                               options.cheats[pool.skill_order[i]] - tier)]_vars

-----------------------------------------------------------------------------
(* C30: the unlock threshold randomize_branch_tier writes for a tier is,    *)
(* under the fixed policy, the largest max_grade among the skills drawn for *)
(* the tier and, under the randomized policy, an integer from 1 to          *)
(* max(1, round(0.66 * the sum of the max_grade of those skills)).          *)
RECURSIVE GradeSum(_)
GradeSum(names) ==
    IF names = <<>> THEN 0 ELSE max_grade(Head(names)) + GradeSum(Tail(names))

GradeMax(names) ==
    IF names = <<>> THEN 0
    ELSE CHOOSE m \in { max_grade(n) : n \in Range(names) } :
             \A n \in Range(names) : max_grade(n) <= m

Round66(total) == (66 * total + 50) \div 100

C30_UnlockThreshold ==
    [][EndTier =>
          LET points == pool'.new_branches[branch_idx + 1].points_to_unlock[tier + 1]
          IN  IF options.randomize_tiers
              THEN points \in 1..Max(1, Round66(GradeSum(tier_skills)))
              ELSE points = GradeMax(tier_skills)]_vars

(* A branch whose last filled tier holds the skills just drawn and, under   *)
(* the randomized policy, a threshold above 1 where truncating and rounding *)
(* 0.66 * total differ.                                                     *)
C30_Witness ==
    /\ pc \in {"tier", "patch"}
    /\ options.randomize_tiers
    /\ tier_skills # <<>>
    /\ Round66(GradeSum(tier_skills)) > TwoThirds(GradeSum(tier_skills))
    /\ \E b \in 1..Len(pool.new_branches) :
          LET t == (18 - pool.new_branches[b].slots_left) \div 3
          IN  /\ t \in 1..(NumTiers - 1)
              /\ pool.new_branches[b].skills[t] = tier_skills
              /\ pool.new_branches[b].points_to_unlock[t] > 1

-----------------------------------------------------------------------------
(* C31: the action skill randomize_tree writes is the only action entry of  *)
(* tier 0 and belongs to an enabled character: the current character under *)
(* "Default" when it is enabled, the named character when it is installed   *)
(* and enabled, and in every other case a character drawn from the enabled  *)
(* ones; the draw went through mark_used with branch_idx = -1.              *)
ActionWritten == pc \in {"tier", "draw", "patch", "randomized"}

C31_ActionSkillSource ==
    ActionWritten =>
        /\ Len(Tree.action_skills) = 1
        /\ \E c \in EnabledSources :
              Tree.action_skills[1] = Character[c].action_skill
        /\ (options.action_skill = "Default" /\ tree_class \in EnabledSources) =>
              Tree.action_skills[1] = Character[tree_class].action_skill
        /\ (options.action_skill \in CharacterNames \cap EnabledSources) =>
              Tree.action_skills[1] = Character[options.action_skill].action_skill
        /\ \E i \in 1..Len(log) :
              /\ log[i].kind = "place"
              /\ log[i].branch = -1
              /\ log[i].name = Tree.action_skills[1]
        /\ \A i \in 1..Len(log) :
              (log[i].kind = "place" /\ log[i].name = Tree.action_skills[1]) =>
                  log[i].branch = -1

(* A tree whose action skill was drawn from the enabled characters because  *)
(* the named character is not installed, and the draw did not fall on the   *)
(* current character.                                                       *)
C31_Witness ==
    /\ ActionWritten
    /\ options.action_skill \notin CharacterNames \cup {"Default", "Random"}
    /\ Tree.action_skills[1] # Character[tree_class].action_skill

-----------------------------------------------------------------------------
(* C32: after randomize_tree, class_mod_skills holds exactly the skills of  *)
(* max_grade > 1 that draws placed in the three branches, each once, and    *)
(* neither the action skill nor a granted free skill; and every drawn skill *)
(* of skill_order has weight 0 in every branch from its draw onward.        *)
DrawnInBranches ==
    { log[i].name : i \in { j \in 1..Len(log) :
                               log[j].kind = "place" /\ log[j].branch >= 0 } }

C32_ClassModSkills ==
    /\ pc = "randomized" =>
          /\ Range(pool.class_mod_skills) =
                 { n \in DrawnInBranches : max_grade(n) > 1 }
          /\ \A i, j \in 1..Len(pool.class_mod_skills) :
                pool.class_mod_skills[i] = pool.class_mod_skills[j] => i = j
          /\ \A c \in CharacterNames :
                Character[c].action_skill \notin Range(pool.class_mod_skills)
          /\ Range(pool.class_mod_skills) \cap GrantedSkills = {}
    /\ pc \in {"tier", "draw", "patch", "randomized"} =>
          \A n \in DrawnInBranches \cap Range(pool.skill_order) :
              \A b \in 1..Len(pool.new_branches) :
                  RIsZero(pool.new_branches[b].skill_weights[
                              IndexOf(pool.skill_order, n)])

(* A returned tree whose branches hold a drawn skill of max_grade 1, left   *)
(* out of class_mod_skills, beside upgradable ones and a granted free       *)
(* skill.                                                                   *)
C32_Witness ==
    /\ pc = "randomized"
    /\ \E n \in DrawnInBranches : max_grade(n) = 1
    /\ pool.class_mod_skills # <<>>
    /\ GrantedSkills # {}

-----------------------------------------------------------------------------
(* C33: the generator on_disable_loading_movie hands to a scrambler depends *)
(* only on the master seed and on the scrambler's position among the        *)
(* scramblers the game supports: a scrambler handed a generator in two      *)
(* loading movies gets the same seed and the same values in both, whatever  *)
(* options were switched and whatever the scramblers consumed in between.   *)
SupportedBefore(name) ==
    Cardinality({ i \in 1..Len(SCRAMBLERS) :
                     /\ i < IndexOf(SCRAMBLERS, name)
                     /\ game \in SUPPORTS(SCRAMBLERS[i]) })

C33_ScramblerStreams ==
    [][OnDisableLoadingMovie =>
          /\ \A name \in DOMAIN handed' :
                handed'[name] = Randrange(seed_option, SupportedBefore(name))
          /\ \A name \in DOMAIN handed \cap DOMAIN handed' :
                /\ handed'[name] = handed[name]
                /\ \A j \in DOMAIN consumed[name] \cap DOMAIN consumed'[name] :
                      consumed'[name][j] = consumed[name][j]]_vars

(* After a loading movie a scrambler holds values of its generator while an *)
(* earlier scrambler the game supports is switched off and another earlier  *)
(* one has consumed values.                                                 *)
C33_Witness ==
    \E a, b, c \in 1..Len(SCRAMBLERS) :
        /\ a < c /\ b < c
        /\ game \in SUPPORTS(SCRAMBLERS[a])
        /\ ~option_value[SCRAMBLERS[a]]
        /\ SCRAMBLERS[a] \notin DOMAIN handed
        /\ SCRAMBLERS[b] \in DOMAIN handed
        /\ consumed[SCRAMBLERS[b]] # <<>>
        /\ SCRAMBLERS[c] \in DOMAIN handed
        /\ consumed[SCRAMBLERS[c]] # <<>>

-----------------------------------------------------------------------------
(* C34: randomize_tree terminates under fair random choices: whenever       *)
(* get_next_skill makes a weighted draw that does not raise, some skill of  *)
(* positive weight is one the call can return, so the while loop is left    *)
(* after finitely many re-draws with probability 1.                         *)
Returnable(skill_name) ==
    \/ options.hidden_skills = "All"
    \/ LET dep == BlockingDep(pool.dependencies, skill_name, options.hidden_skills)
       IN  \/ dep = "None"
           \/ Range(DepDef[dep].providers) \cap pool.skills # {}

Redrawing ==
    /\ pc = "draw"
    /\ Len(tier_skills) < skill_count
    /\ ChoicesError(pool.skill_order, CurrentBranch.skill_weights) = "ok"

C34_DrawCanReturn ==
    Redrawing =>
        \E i \in 1..Len(pool.skill_order) :
            /\ RLess(R(0), CurrentBranch.skill_weights[i])
            /\ Returnable(pool.skill_order[i])

-----------------------------------------------------------------------------
(* C35: randomize_coms terminates under fair random choices: whenever the   *)
(* special-mod loop draws from the recorded class mods, one of them passes  *)
(* its test, and whenever the repeat-rejection loop draws for a slot, some  *)
(* skill of the list is not yet used in the class mod.                      *)
C35_ComLoopsCanLeave ==
    /\ (pc = "special" /\ com_patcher.coms # <<>>) =>
          \E i \in 1..Len(com_patcher.coms) :
              ~RejectSpecial(com_patcher.coms[i].key, com_patcher.coms[i].map,
                             com_loop.cheat_skills)
    /\ (InSlotLoop /\ ~TakesCheat) =>
          \E skill \in Range(pool.class_mod_skills) :
              ~IsUsed(skill, com_loop.used_skills)

-----------------------------------------------------------------------------
(* C36: when randomize_coms has performed an assignment, every skill of     *)
(* cheat_skills stands in a skill slot of the special class mod and         *)
(* cheat_skills is empty.                                                   *)
SpecialModSkills ==
    LET mod == class_mods[ModIndex(class_mods, com_loop.special_com_name)]
    IN  { mod.slots[i].attr : i \in 1..Len(mod.slots) }

C36_CheatsInSpecialMod ==
    (pc = "injected" /\ injects = 1 /\ com_loop.special_com_name # "None") =>
        /\ ComSkills(options.cheats) \subseteq SpecialModSkills
        /\ com_loop.cheat_skills = {}

-----------------------------------------------------------------------------
(* C37: after every inject_skills call made with randomize_coms enabled,    *)
(* every recorded skill slot of the current character's class mods holds a  *)
(* skill of the current pool's class_mod_skills or a forced class-mod       *)
(* skill, whatever inject_skills calls came before.                         *)
RecordedSlots ==
    UNION { { <<c, k>> : k \in 1..Len(com_patcher.coms[c].map) } :
              c \in { i \in 1..Len(com_patcher.coms) :
                        class_mods[ModIndex(class_mods, com_patcher.coms[i].key)]
                            .player_class = pool.current_char_class } }

SlotSkill(cs) ==
    class_mods[ModIndex(class_mods, com_patcher.coms[cs[1]].key)]
        .slots[com_patcher.coms[cs[1]].map[cs[2]].index + 1].attr

C37_SlotsFromCurrentPool ==
    (pc = "injected" /\ options.randomize_coms) =>
        \A cs \in RecordedSlots :
            SlotSkill(cs) \in Range(pool.class_mod_skills)
                                \cup ComSkills(options.cheats)

-----------------------------------------------------------------------------
(* C38: for each class mod, record_coms maps exactly the indices i of       *)
(* AttributeSlotEffects whose SlotName starts with "Skill" and whose        *)
(* attribute is not null, each to the name of the attribute at index i.     *)
SkillSlotsOf(mod) ==
    { << i - 1, mod.slots[i].attr >> :
        i \in { j \in 1..Len(mod.slots) :
                  mod.slots[j].slot_name = "Skill" /\ mod.slots[j].attr # "None" } }

C38_RecordedIndices ==
    ~com_patcher.is_none =>
        \A c \in 1..Len(com_patcher.coms) :
            { << com_patcher.coms[c].map[k].index, com_patcher.coms[c].map[k].attr >> :
                k \in 1..Len(com_patcher.coms[c].map) }
              = SkillSlotsOf(com_before[ModIndex(com_before, com_patcher.coms[c].key)])

-----------------------------------------------------------------------------
(* C39: after Changes.unwind no modification remains pending: a commit      *)
(* issued right after it, with no set_obj or edit_obj in between, changes   *)
(* nothing in the engine.                                                   *)
C39_NothingPendingAfterUnwind ==
    [][Unwind => Committed(cache', objects') = objects']_vars

====
